---- MODULE Spec2Model ----
(***************************************************************************)
(* A model of the transparent-poker server: the table room lifecycle       *)
(* (src/src/net/server.rs), the bank (src/src/bank.rs), the hand engine    *)
(* (src/src/engine/runner.rs, adapter.rs, historian.rs) and the event      *)
(* fan-out.  Each subsystem has its own next-state relation over the       *)
(* shared variables; the specifications are                                *)
(*   Spec        the lobby: connections, tables, bank, game handles        *)
(*   SpecLocks   the lock acquisitions of every thread                     *)
(*   SpecEngine  one game: the hand loop, the ports and the fan-out        *)
(***************************************************************************)
EXTENDS Integers, Sequences, FiniteSets, TLC

\* ------------------------------------------------------------------------
\* Bounds of the model
\* ------------------------------------------------------------------------
NumConns == 2
NumTables == 1
MaxGames == 1

\* ------------------------------------------------------------------------
\* Configuration values (tables.toml, players.toml, profiles.toml)
\* ------------------------------------------------------------------------
\* TableConfig.max_players / min_players of every table of the roster
max_players == 2
min_players == 2
\* TableConfig::effective_buy_in and Bank.default_bankroll, in buy-in units
BuyIn == 1
default_bankroll == 2

Conns == 1..NumConns
TableIds == 1..NumTables
GameIds == 1..MaxGames
Seats == 0..(max_players - 1)

NoConn == 0
NoAI == 0
NoGame == 0
NoTable == 0
NoProfile == -1
NoSeat == -1

\* The username a client may send in Login; "" is the empty (rejected) name.
Usernames == {"al"}

MAX_USERNAME_LENGTH == 32
MAX_TABLE_ID_LENGTH == 64

\* A username of 33 characters
LongName == "aaaaaaaaaaaaaaaaaaaaaaaaaaaaaaaaa"
NoName == "<none>"

\* str::to_lowercase on the names of the model
ToLower(u) ==
    CASE u = "Bo" -> "bo"
      [] u = "Unknown" -> "unknown"
      [] u = "Anonymous" -> "anonymous"
      [] OTHER -> u

\* The AI roster (players.toml): id and display name of each PlayerConfig.
ai_roster == << [id |-> "bo", name |-> "Bo"] >>
RosterIdx == 1..Len(ai_roster)

BankIds == {"al", "bo", "unknown"}

VARIABLES
    connPc,        \* per connection: "new", "open", "cleanup", "closed"
    username,      \* Connection.username (NoName = None)
    current_table, \* Connection.current_table (NoTable = None)
    discTable,     \* the table id the disconnect cleanup captured
    status,        \* TableRoom.status
    players,       \* TableRoom.players : seat -> connection id
    ai_players,    \* TableRoom.ai_players : seat -> roster index
    ready,         \* TableRoom.ready : seat -> "none" | "no" | "yes"
    active_game,   \* TableRoom.active_game : game id or NoGame
    games,         \* the ActiveGame handles and their threads
    bank,          \* Bank.profiles : id -> bankroll or NoProfile
    lastBuyIn,     \* outcome of the buy-in of the last handler
    errors         \* the Error messages the last handler sent to its sender

srvVars == << connPc, username, current_table, discTable, status, players,
              ai_players, ready, active_game, games, bank, lastBuyIn, errors >>

\* The lock model: what each thread is executing and the locks it holds
VARIABLES
    thPath,        \* per thread: the code path it executes, "idle" or "done"
    thPos,         \* per thread: the next lock operation of its path
    heldSeq        \* per thread: the locks it holds, in acquisition order

lockVars == << thPath, thPos, heldSeq >>

\* The threads of one game: the engine (GameRunner::run), the server's handle
\* on it, the action channels and the fan-out thread
VARIABLES
    runnerPc,      \* where GameRunner::run stands
    stacks,        \* run: `stacks`, the chips of every player between hands
    dealer_idx,    \* run: `dealer_idx`
    hand_num,      \* run: `hand_num`
    game_state,    \* the GameState of the simulation of the current hand
    street_raises, \* the Bet / Raise records of action_history on this street
    sitting_out,   \* GameHandle.sitting_out, shared with the ActiveGame
    quit_signal,   \* GameHandle.quit_signal, shared with the ActiveGame
    in_game,       \* the seats of ActiveGame.conn_to_seat / action_senders
    action_q,      \* per seat: the actions queued in its mpsc channel
    event_q,       \* the GameEvents in the channel to the fan-out thread
    socket,        \* per seat: the last game event written to its stream
    game_finished, \* ActiveGame.game_finished
    queued_at_request, \* the channel held an action when the request began
    left_mid_hand, \* the first seat that disconnected while a hand ran
    acts_after_leave, \* ActionTaken events of that seat since then
    hands_after_quit, \* HandStarted events emitted since quit_signal was raised
    out_at_start,     \* the sitting_out set when the last HandStarted was emitted
    left_notified, \* the seats sent PlayerLeft{Disconnected} for it
    end_reason     \* GameEnded.reason once emitted

engVars == << runnerPc, stacks, dealer_idx, hand_num, game_state, street_raises,
              sitting_out, quit_signal, in_game, action_q, event_q,
              socket, game_finished, queued_at_request, left_mid_hand,
              acts_after_leave, hands_after_quit, out_at_start, left_notified, end_reason >>

\* The streams of a game's fan-out thread
VARIABLES
    stream_conn,   \* player_streams: game seat -> the connection of its stream
    emitted,       \* every GameEvent the engine has sent on event_tx, in order
    wire           \* per connection: the GameEvents the fan-out thread wrote

fanVars == << stream_conn, emitted, wire >>

\* The rake of the EventHistorian
VARIABLES
    rake_collected \* EventHistorian.rake_collected, in hundredths of a chip,
                   \* summed over the historians of the hands played

rakeVars == << rake_collected >>

\* One decision of a PlayerAdapter
VARIABLES
    decision       \* PlayerAdapter::act: what the adapter was given, the mask
                   \* it built and the AgentAction it returned

adapterVars == << decision >>

\* The receive side of one connection
VARIABLES
    inbound,       \* the bytes the peer has written and reader.read has not
                   \* returned yet
    pending,       \* handle_connection: pending
    dispatched,    \* the ClientMessages handed to process_message, in order
    frames_sent,   \* number of frames the peer has written
    short_reads,   \* number of reads that returned less than was there
    decoded        \* try_decode_message applied to encode_message(m)

frameVars == << inbound, pending, dispatched, frames_sent, short_reads, decoded >>

\* The lobby of the local (single-process) backend
VARIABLES
    local_table,   \* LocalBackend.current_table (NoTable = None)
    lobby_players  \* LocalBackend.lobby_players

localVars == << local_table, lobby_players >>

\* One hand, as the historian and the viewers' sockets see its cards
VARIABLES
    original_hole_cards, \* EventHistorian.original_hole_cards
    folded,              \* EventHistorian.folded
    sim_active,          \* the seats still in the hand (GameState.player_active)
    showPc,              \* "deal", "bet", "ended", "done"
    reached_showdown,    \* the hand went to Round::Showdown
    seen                 \* per viewer: the game events written to its socket

showVars == << original_hole_cards, folded, sim_active, showPc, reached_showdown, seen >>

\* The buy-in and the starting stack of one game
VARIABLES
    table_config,  \* the TableConfig of the table
    wallet,        \* the bankroll of a player seated at it
    debited,       \* what Bank::buyin took from the player at game start
    runner_stack,  \* RunnerConfig.starting_stack of the game's engine
    buyPc          \* "config", "loaded", "started", "refused"

buyVars == << table_config, wallet, debited, runner_stack, buyPc >>

\* A table of three seats, from the lobby into a game
VARIABLES
    room_status,   \* TableRoom.status
    room_players,  \* TableRoom.players : lobby seat -> connection id
    room_ai,       \* TableRoom.ai_players : the lobby seats held by an AI
    joined_seat,   \* per connection: the seat of the TableJoined sent to it
    conn_to_seat,  \* ActiveGame.conn_to_seat : connection -> game seat
    last_left      \* the seat of the last PlayerLeft, and the sender's game seat

roomVars == << room_status, room_players, room_ai, joined_seat, conn_to_seat, last_left >>

\* The table list and the LobbyState messages that carry it
VARIABLES
    lobby_rooms,   \* tables: per table its status, its players, game_finished
    lobby_table,   \* Connection.current_table
    listPc,        \* per connection: where its ListTables handler stands
    any_cleaned,   \* the handler's local any_cleaned
    table_list,    \* the handler's local table_list, with the time it was built
    lobby_state,   \* per connection: the last LobbyState written to its stream
    snapshots      \* how many table lists have been built

listVars == << lobby_rooms, lobby_table, listPc, any_cleaned, table_list, lobby_state, snapshots >>

\* ------------------------------------------------------------------------
\* Bank (src/src/bank.rs)
\* ------------------------------------------------------------------------
\* Bank::get_bankroll: the default bankroll stands for a missing profile
get_bankroll(b, id) == IF b[id] = NoProfile THEN default_bankroll ELSE b[id]

\* Bank::ensure_exists
ensure_exists(b, id) ==
    IF b[id] = NoProfile THEN [b EXCEPT ![id] = default_bankroll] ELSE b

\* Bank::debit succeeds iff the bankroll covers the amount
debit_ok(b, id, amount) == ensure_exists(b, id)[id] >= amount

\* Bank::debit / Bank::buyin: the profile is created first, then debited
\* when the funds suffice; an insufficient bankroll is left as it is.
buyin(b, id, amount) ==
    LET e == ensure_exists(b, id) IN
    IF e[id] < amount THEN e ELSE [e EXCEPT ![id] = e[id] - amount]

\* Bank::credit / Bank::cashout
cashout(b, id, amount) ==
    LET e == ensure_exists(b, id) IN [e EXCEPT ![id] = e[id] + amount]

\* The buy-in loop of the Ready handler: bank.buyin for each id in turn,
\* leaving the loop at the first failure (the `?` operator).
RECURSIVE buyin_all(_, _)
buyin_all(b, ids) ==
    IF ids = << >> THEN [ok |-> TRUE, bank |-> b]
    ELSE IF debit_ok(b, Head(ids), BuyIn)
         THEN buyin_all(buyin(b, Head(ids), BuyIn), Tail(ids))
         ELSE [ok |-> FALSE, bank |-> buyin(b, Head(ids), BuyIn)]

\* ------------------------------------------------------------------------
\* TableRoom (src/src/net/server.rs)
\* ------------------------------------------------------------------------
HumanSeats(pl) == {s \in Seats : pl[s] # NoConn}
AISeats(ai) == {s \in Seats : ai[s] # NoAI}

\* TableRoom::player_count
player_count(pl, ai) == Cardinality(HumanSeats(pl)) + Cardinality(AISeats(ai))

\* TableRoom::find_empty_seat: the lowest seat held by nobody, or NoSeat
find_empty_seat(pl, ai) ==
    LET free == {s \in Seats : pl[s] = NoConn /\ ai[s] = NoAI}
    IN IF free = {} THEN NoSeat
       ELSE CHOOSE s \in free : \A x \in free : s <= x

\* all_ready without the min_players test
all_ready_NoMinimum(pl, ai, rd) == \A s \in Seats : rd[s] # "no"

\* TableRoom::all_ready, on a ready map rd
all_ready(pl, ai, rd) ==
    /\ player_count(pl, ai) >= min_players
    /\ \A s \in Seats : rd[s] # "no"

\* Connection.username of a connection still in the connections map
ConnName(c) == IF connPc[c] = "open" THEN username[c] ELSE NoName

\* TableRoom::has_username
has_username(pl, ai, u) ==
    \/ \E s \in HumanSeats(pl) :
          /\ ConnName(pl[s]) # NoName
          /\ ToLower(ConnName(pl[s])) = ToLower(u)
    \/ \E s \in AISeats(ai) : ToLower(ai_roster[ai[s]].name) = ToLower(u)

\* conn.username.unwrap_or(dflt)
NameOr(c, dflt) == IF username[c] = NoName THEN dflt ELSE username[c]

EmptySeats == [s \in Seats |-> NoConn]
EmptyAI == [s \in Seats |-> NoAI]
EmptyReady == [s \in Seats |-> "none"]

\* Seats of a set in ascending order (sort_by_key on the seat)
RECURSIVE SortSeats(_)
SortSeats(S) ==
    IF S = {} THEN << >>
    ELSE LET m == CHOOSE s \in S : \A x \in S : s <= x
         IN << m >> \o SortSeats(S \ {m})

\* All orders in which a HashMap may yield the elements of S
RECURSIVE Orders(_)
Orders(S) ==
    IF S = {} THEN { << >> }
    ELSE UNION { { << x >> \o o : o \in Orders(S \ {x}) } : x \in S }

\* ------------------------------------------------------------------------
\* ActiveGame (src/src/net/server.rs)
\* ------------------------------------------------------------------------
\* A game: the ActiveGame handle together with the progress of its engine
\* and fan-out threads.  phase: "free" (no such game), "running",
\* "ended" (GameEnded emitted), "paid" (stacks credited), "finished"
\* (game_finished set).
NoGameRec ==
    [phase |-> "free", conn_to_seat |-> [c \in Conns |-> NoSeat],
     action_senders |-> {}, sitting_out |-> {}, quit_signal |-> FALSE,
     player_bank_ids |-> << >>]

FreeGames == {g \in GameIds : games[g].phase = "free"}

\* ActiveGame::is_finished
is_finished(g) == games[g].phase = "finished"

\* ActiveGame::remove_player
game_remove_player(gr, c) ==
    IF gr.conn_to_seat[c] # NoSeat
    THEN [gr EXCEPT !.conn_to_seat[c] = NoSeat,
                    !.action_senders = @ \ {gr.conn_to_seat[c]},
                    !.sitting_out = @ \cup {gr.conn_to_seat[c]}]
    ELSE gr

\* ActiveGame::has_humans
has_humans(gr) == \E c \in Conns : gr.conn_to_seat[c] # NoSeat

\* ActiveGame::signal_quit
signal_quit(gr) == [gr EXCEPT !.quit_signal = TRUE]

\* ------------------------------------------------------------------------
\* Lock acquisitions (src/src/net/server.rs): the lock operations of every
\* path through handle_connection, process_message and the fan-out thread,
\* in program order.  A guard is released where it is dropped: explicitly,
\* at the end of its block, or at a return in reverse order of declaration.
\* ------------------------------------------------------------------------
NumReaders == 2
FanoutThread == 0
Readers == 1..NumReaders
LockThreads == Readers \cup {FanoutThread}

Locks == {"tables", "connections", "bank"}

\* The documented order: 1. tables, 2. connections, 3. bank
LockRank(l) == CASE l = "tables" -> 1 [] l = "connections" -> 2 [] l = "bank" -> 3

Acq(l) == << "acq", l >>
Rel(l) == << "rel", l >>

\* The Mutex start_game wraps around the stream clone of the fan-out thread
StreamMutex == "stream"

\* write_all on the client's socket: the call begins, the call returns
WriteAll == << << "wbegin", "socket" >>, << "wend", "socket" >> >>

\* A path: its name and its lock operations
Path(name, ops) == [name |-> name, ops |-> ops]

\* handle_connection: lock_connections(&connections).insert(conn_id, conn)
PathAccept == Path("accept", << Acq("connections"), Rel("connections") >>)

\* Login with a bad username / JoinTable with an over-long id
PathErrorReply ==
    Path("error", << Acq("connections") >> \o WriteAll \o << Rel("connections") >>)

\* Login: connections, then bank for get_bankroll inside it, then Welcome
PathLogin ==
    Path("login", << Acq("connections"), Acq("bank"), Rel("bank") >>
                  \o WriteAll \o << Rel("connections") >>)

\* ListTables: cleanup under tables, the list under tables, then connections
PathListTables ==
    Path("list", << Acq("tables"), Rel("tables"), Acq("tables"), Rel("tables"),
                    Acq("connections") >> \o WriteAll \o << Rel("connections") >>)

\* JoinTable, LeaveTable, RemoveAI, Action, and Ready / AddAI on the paths
\* that do not reach the bank: the reply or broadcast under both guards
PathTablesConns ==
    Path("tables-conns",
         << Acq("tables"), Acq("connections") >> \o WriteAll
         \o << Rel("connections"), Rel("tables") >>)

\* Ready with all seats ready and the buy-ins paid (bank_lock dropped before
\* GameStarting is broadcast) and AddAI (ensure_exists block, then AIAdded)
PathTablesConnsBank ==
    Path("tables-conns-bank",
         << Acq("tables"), Acq("connections"), Acq("bank"), Rel("bank") >>
         \o WriteAll \o << Rel("connections"), Rel("tables") >>)

\* Ready with all seats ready and a buy-in refused: the Error is broadcast
\* before the return drops bank_lock, conns and tables_lock
PathReadyBuyInFailed ==
    Path("ready-failed",
         << Acq("tables"), Acq("connections"), Acq("bank") >> \o WriteAll
         \o << Rel("bank"), Rel("connections"), Rel("tables") >>)

\* Disconnect cleanup of a connection that is not at a table
PathDisconnectLobby ==
    Path("disconnect-lobby", << Acq("connections"), Rel("connections") >>)

\* Disconnect cleanup, connection at a table but no seat removed
PathDisconnectNoSeat ==
    Path("disconnect-noseat",
         << Acq("connections"), Rel("connections"), Acq("tables"), Rel("tables") >>)

\* The disconnect cleanup, had it looked the table up before releasing the
\* connections map
PathDisconnectSeated_ConnectionsHeld ==
    Path("disconnect-seated",
         << Acq("connections"), Acq("tables"), Rel("tables"), Rel("connections"),
            Acq("tables"), Acq("connections") >> \o WriteAll
         \o << Rel("connections"), Rel("tables") >>)

\* Disconnect cleanup with the broadcasts of the removed seat
PathDisconnectSeated ==
    Path("disconnect-seated",
         << Acq("connections"), Rel("connections"), Acq("tables"), Rel("tables"),
            Acq("tables"), Acq("connections") >> \o WriteAll
         \o << Rel("connections"), Rel("tables") >>)

\* Fan-out thread on GameEnded: the event is written under the mutex of the
\* thread's own stream clone, then the bank alone
PathFanoutGameEnded ==
    Path("fanout", << Acq(StreamMutex) >> \o WriteAll
                   \o << Rel(StreamMutex), Acq("bank"), Rel("bank") >>)

\* The paths a reader thread may take for one message
HandlerPaths ==
    { PathErrorReply, PathLogin, PathListTables, PathTablesConns,
      PathTablesConnsBank, PathReadyBuyInFailed }

DisconnectPaths == { PathDisconnectLobby, PathDisconnectNoSeat, PathDisconnectSeated }

Idle == Path("idle", << >>)

LockInit ==
    /\ thPath = [th \in LockThreads |-> IF th = FanoutThread THEN Idle ELSE PathAccept]
    /\ thPos = [th \in LockThreads |-> IF th = FanoutThread THEN 0 ELSE 1]
    /\ heldSeq = [th \in LockThreads |-> << >>]

Holds(th, l) == \E i \in 1..Len(heldSeq[th]) : heldSeq[th][i] = l
LockFree(l) == \A th \in LockThreads : ~Holds(th, l)

\* thPos = 0: between messages; thPos = -1: the thread has ended
Running(th) == thPos[th] >= 1

\* The lock operation thread th is about to perform
NextOp(th) == thPath[th].ops[thPos[th]]

\* The position after the operation: a reader ends with its cleanup
AfterOp(th) ==
    IF thPos[th] < Len(thPath[th].ops) THEN thPos[th] + 1
    ELSE IF thPath[th] \in DisconnectPaths THEN -1 ELSE 0

\* A reader takes the next message off its socket
StartHandler(th) ==
    /\ th \in Readers
    /\ thPos[th] = 0
    /\ \E p \in HandlerPaths :
          thPath' = [thPath EXCEPT ![th] = p]
    /\ thPos' = [thPos EXCEPT ![th] = 1]
    /\ UNCHANGED heldSeq
    /\ UNCHANGED << srvVars, engVars, fanVars, rakeVars, adapterVars, frameVars, localVars, showVars, buyVars, roomVars, listVars >>

\* The read fails or the client closes: the cleanup begins
StartDisconnect(th) ==
    /\ th \in Readers
    /\ thPos[th] = 0
    /\ \E p \in DisconnectPaths :
          thPath' = [thPath EXCEPT ![th] = p]
    /\ thPos' = [thPos EXCEPT ![th] = 1]
    /\ UNCHANGED heldSeq
    /\ UNCHANGED << srvVars, engVars, fanVars, rakeVars, adapterVars, frameVars, localVars, showVars, buyVars, roomVars, listVars >>

\* The fan-out thread receives GameEnded
StartFanout ==
    /\ thPos[FanoutThread] = 0
    /\ thPath' = [thPath EXCEPT ![FanoutThread] = PathFanoutGameEnded]
    /\ thPos' = [thPos EXCEPT ![FanoutThread] = 1]
    /\ UNCHANGED heldSeq
    /\ UNCHANGED << srvVars, engVars, fanVars, rakeVars, adapterVars, frameVars, localVars, showVars, buyVars, roomVars, listVars >>

\* Mutex::lock: blocks until the lock is free
Acquire(th) ==
    /\ Running(th)
    /\ NextOp(th)[1] = "acq"
    /\ LockFree(NextOp(th)[2])
    /\ heldSeq' = [heldSeq EXCEPT ![th] = Append(@, NextOp(th)[2])]
    /\ thPos' = [thPos EXCEPT ![th] = AfterOp(th)]
    /\ UNCHANGED thPath
    /\ UNCHANGED << srvVars, engVars, fanVars, rakeVars, adapterVars, frameVars, localVars, showVars, buyVars, roomVars, listVars >>

\* The guard is dropped
Release(th) ==
    /\ Running(th)
    /\ NextOp(th)[1] = "rel"
    /\ heldSeq' = [heldSeq EXCEPT ![th] =
                      SelectSeq(@, LAMBDA l : l # NextOp(th)[2])]
    /\ thPos' = [thPos EXCEPT ![th] = AfterOp(th)]
    /\ UNCHANGED thPath
    /\ UNCHANGED << srvVars, engVars, fanVars, rakeVars, adapterVars, frameVars, localVars, showVars, buyVars, roomVars, listVars >>

\* th is inside write_all on the client's socket
InWrite(th) == Running(th) /\ NextOp(th)[1] = "wend"

\* write_all is entered
WriteBegin(th) ==
    /\ Running(th)
    /\ NextOp(th)[1] = "wbegin"
    /\ thPos' = [thPos EXCEPT ![th] = AfterOp(th)]
    /\ UNCHANGED << thPath, heldSeq >>
    /\ UNCHANGED << srvVars, engVars, fanVars, rakeVars, adapterVars, frameVars, localVars, showVars, buyVars, roomVars, listVars >>

\* write_all returns
WriteEnd(th) ==
    /\ Running(th)
    /\ NextOp(th)[1] = "wend"
    /\ thPos' = [thPos EXCEPT ![th] = AfterOp(th)]
    /\ UNCHANGED << thPath, heldSeq >>
    /\ UNCHANGED << srvVars, engVars, fanVars, rakeVars, adapterVars, frameVars, localVars, showVars, buyVars, roomVars, listVars >>

NextLocks ==
    \/ \E th \in Readers : StartHandler(th)
    \/ \E th \in Readers : StartDisconnect(th)
    \/ StartFanout
    \/ \E th \in LockThreads : Acquire(th)
    \/ \E th \in LockThreads : Release(th)
    \/ \E th \in LockThreads : WriteBegin(th)
    \/ \E th \in LockThreads : WriteEnd(th)

\* th waits for a lock that b holds
WaitsFor(th, b) ==
    /\ Running(th)
    /\ NextOp(th)[1] = "acq"
    /\ Holds(b, NextOp(th)[2])

\* C4: a thread that holds one of the three locks acquires another only
\* in the order tables -> connections -> bank, and no set of threads is
\* deadlocked on the three locks.
C4_LockOrder ==
    /\ \A th \in LockThreads :
          \A i, j \in 1..Len(heldSeq[th]) :
              i < j => LockRank(heldSeq[th][i]) < LockRank(heldSeq[th][j])
    /\ \A S \in SUBSET LockThreads :
          S # {} => \E th \in S : ~\E b \in S : WaitsFor(th, b)

\* C4 witness: a thread holds all three locks while another thread waits
\* for one of them
C4_Witness ==
    \E th, b \in LockThreads :
        /\ Len(heldSeq[th]) = 3
        /\ WaitsFor(b, th)

\* ------------------------------------------------------------------------
\* The game engine (src/src/engine) and the threads of one game.  All the
\* players of the game are remote humans (RemotePlayer); chips are whole
\* numbers; a showdown ranks the hands strictly.
\* ------------------------------------------------------------------------
NumPlayers == 2
starting_stack == 6
small_blind == 1
big_blind == 2
max_raises_per_round == 1
MaxHands == 1
\* RunnerConfig.max_hands, Some(m)
max_hands == MaxHands
\* The numbers of players a game may be run with
PlayerCounts == {1, NumPlayers}
MaxQueued == 1
MaxPending == 0

Players == 0..(NumPlayers - 1)
\* The amounts a client names in a Bet or Raise: the least raise of the
\* big blind and the whole starting stack
BetAmounts == {2 * big_blind, starting_stack}

\* The hole cards a seat may be dealt, and the placeholder of the filter
Hands == {"AhKh", "7c2d"}
NoCards == "none"
Hidden == "??"

Min(a, b) == IF a <= b THEN a ELSE b
Max(a, b) == IF a >= b THEN a ELSE b

RECURSIVE SumOver(_, _)
SumOver(f, S) ==
    IF S = {} THEN 0
    ELSE LET x == CHOOSE y \in S : TRUE IN f[x] + SumOver(f, S \ {x})

\* The first index after i, going round the table, that is in S
NextIn(i, S) ==
    LET d == CHOOSE k \in 1..NumPlayers :
                /\ ((i + k) % NumPlayers) \in S
                /\ \A e \in 1..(k - 1) : ((i + e) % NumPlayers) \notin S
    IN (i + d) % NumPlayers

ZeroChips == [p \in Players |-> 0]

\* GameEvent (src/src/events/types.rs), every variant with the same fields
Event(type) ==
    [type |-> type, seat |-> NoSeat, cards |-> NoCards, action |-> "none",
     amount |-> 0, stacks |-> ZeroChips, reason |-> "none"]

NoEvent == Event("none")

\* PlayerAction, as a client may send it in ClientMessage::Action
PlayerActions ==
    {[kind |-> k, amount |-> 0] : k \in {"Fold", "Call"}}
    \cup {[kind |-> "Raise", amount |-> a] : a \in BetAmounts}

\* rs_poker Round, from the first betting round on
Rounds == << "Preflop", "Flop", "Turn", "River", "Showdown", "Complete" >>
RoundIdx(r) == CHOOSE i \in 1..Len(Rounds) : Rounds[i] = r

\* The game state between hands
NoHand ==
    [round |-> "Complete", stacks |-> ZeroChips, player_bet |-> ZeroChips,
     committed |-> ZeroChips, player_active |-> {}, player_all_in |-> {},
     needs_action |-> {}, to_act_idx |-> 0, bet |-> 0, min_raise |-> 0]

\* GameState::new_starting: a player without chips is not active
new_starting(game_stacks, dealer) ==
    [round |-> "Preflop", stacks |-> game_stacks, player_bet |-> ZeroChips,
     committed |-> ZeroChips,
     player_active |-> {p \in Players : game_stacks[p] > 0},
     player_all_in |-> {},
     needs_action |-> {p \in Players : game_stacks[p] > 0},
     to_act_idx |-> dealer, bet |-> 0, min_raise |-> big_blind]

\* A forced bet: the blind, or the whole stack when it is smaller
do_forced_bet(gs, p, amt) ==
    LET put == Min(amt, gs.stacks[p])
        allin == put = gs.stacks[p]
    IN [gs EXCEPT !.stacks[p] = @ - put,
                  !.player_bet[p] = @ + put,
                  !.committed[p] = @ + put,
                  !.bet = Max(@, gs.player_bet[p] + put),
                  !.player_all_in = IF allin THEN @ \cup {p} ELSE @,
                  !.needs_action = IF allin THEN @ \ {p} ELSE @]

\* The simulation posts the blinds: the small blind by the first active
\* player after the dealer, the big blind by the next one
post_blinds(gs, dealer) ==
    IF gs.player_active = {} THEN [gs EXCEPT !.round = "Complete"]
    ELSE LET sb == NextIn(dealer, gs.player_active)
             g1 == do_forced_bet(gs, sb, small_blind)
             bb == NextIn(sb, gs.player_active)
             g2 == do_forced_bet(g1, bb, big_blind)
             open == g2.needs_action
             na == IF Cardinality(open) = 1
                      /\ \A p \in open : g2.player_bet[p] >= g2.bet
                   THEN {} ELSE open
         IN [g2 EXCEPT !.needs_action = na,
                       !.to_act_idx = IF na = {} THEN bb ELSE NextIn(bb, na)]

\* The next round of the simulation: bets are cleared, and the players who
\* still have chips act again when there are at least two of them
next_round(gs, dealer) ==
    LET open == gs.player_active \ gs.player_all_in
        na == IF Cardinality(open) >= 2 THEN open ELSE {}
    IN [gs EXCEPT !.round = Rounds[RoundIdx(gs.round) + 1],
                  !.player_bet = ZeroChips,
                  !.bet = 0,
                  !.min_raise = big_blind,
                  !.needs_action = na,
                  !.to_act_idx = IF na = {} THEN @ ELSE NextIn(dealer, na)]

\* The simulation runs on until an agent has to act or the hand is over
RECURSIVE advance(_, _)
advance(gs, dealer) ==
    IF gs.round \in {"Showdown", "Complete"} THEN gs
    ELSE IF Cardinality(gs.player_active) <= 1 THEN [gs EXCEPT !.round = "Complete"]
    ELSE IF gs.needs_action # {} THEN gs
    ELSE advance(next_round(gs, dealer), dealer)

\* GameState::fold
fold(gs, p) ==
    [gs EXCEPT !.player_active = @ \ {p}, !.needs_action = @ \ {p}]

\* GameState::do_bet, an unforced bet to the total `target` for the round:
\* capped by the stack, refused when it lowers the player's bet, does not
\* call, or raises by less than the minimum without being all-in
do_bet(gs, p, target) ==
    LET prev == gs.player_bet[p]
        extra == Min(gs.stacks[p], target - prev)
        new == prev + extra
        allin == extra = gs.stacks[p]
        raise == new - gs.bet
        all_in == IF allin THEN gs.player_all_in \cup {p} ELSE gs.player_all_in
    IN [ok |-> /\ target >= prev
               /\ (new >= gs.bet \/ allin)
               /\ (raise <= 0 \/ raise >= gs.min_raise \/ allin),
        gs |-> [gs EXCEPT !.stacks[p] = @ - extra,
                          !.player_bet[p] = new,
                          !.committed[p] = @ + extra,
                          !.bet = Max(@, new),
                          !.min_raise = IF raise > 0 THEN Max(@, raise) ELSE @,
                          !.player_all_in = all_in,
                          !.needs_action =
                              IF raise > 0 THEN (gs.player_active \ all_in) \ {p}
                              ELSE @ \ {p}]]

\* The chips of a finished hand go to the players in the order of their
\* hands, each winning from every player up to what he put in himself;
\* what nobody can win returns to its owner
RECURSIVE award(_, _, _)
award(rem, stk, order) ==
    IF order = << >> THEN [p \in Players |-> stk[p] + rem[p]]
    ELSE LET w == Head(order)
             take == [p \in Players |-> Min(rem[p], rem[w])]
         IN award([p \in Players |-> rem[p] - take[p]],
                  [stk EXCEPT ![w] = @ + SumOver(take, Players)],
                  Tail(order))

\* The stacks a finished hand may leave, one for every ranking of the hands
Outcomes(gs) ==
    { award(gs.committed, gs.stacks, o) : o \in Orders(gs.player_active) }

\* PlayerAdapter::build_valid_actions
build_valid_actions(gs, p, raises) ==
    LET to_call == gs.bet - gs.player_bet[p]
        raise_cap_reached == raises >= max_raises_per_round
    IN [can_fold |-> to_call > 0,
        can_check |-> to_call <= 0,
        can_raise |-> ~raise_cap_reached /\ gs.stacks[p] > to_call,
        can_all_in |-> gs.stacks[p] > 0 /\ ~raise_cap_reached]

\* The answer to a timeout, had the adapter called whatever is owed
check_or_fold_AlwaysCall(valid) == [kind |-> "Call", amount |-> 0]

\* The answer to a timeout, an admin command or a closed channel
check_or_fold(valid) ==
    IF valid.can_check THEN [kind |-> "Call", amount |-> 0]
    ELSE [kind |-> "Fold", amount |-> 0]

\* PlayerAdapter::convert_action
convert_action(action, valid) ==
    CASE action.kind = "Fold" -> [kind |-> "Fold", amount |-> 0]
      [] action.kind \in {"Check", "Call"} -> [kind |-> "Call", amount |-> 0]
      [] action.kind \in {"Bet", "Raise"} -> [kind |-> "Bet", amount |-> action.amount]
      [] action.kind = "AllIn" -> [kind |-> "AllIn", amount |-> 0]
      [] action.kind = "Timeout" -> check_or_fold(valid)

\* The simulation applies the AgentAction of player p; `taken` is the
\* PlayerAction EventHistorian::record_action makes of the PlayedAction, or
\* "none" for the FailedAction of a refused bet, which folds the player
run_agent_action(gs, p, aa) ==
    LET target == CASE aa.kind = "Call" -> gs.bet
                    [] aa.kind = "Bet" -> aa.amount
                    [] aa.kind = "AllIn" -> gs.stacks[p] + gs.player_bet[p]
                    [] OTHER -> 0
        r == do_bet(gs, p, target)
    IN CASE aa.kind = "Fold" -> [gs |-> fold(gs, p), taken |-> "Fold"]
         [] aa.kind # "Fold" /\ ~r.ok -> [gs |-> fold(gs, p), taken |-> "none"]
         [] aa.kind = "Call" /\ r.ok ->
              [gs |-> r.gs,
               taken |-> IF r.gs.player_bet[p] <= gs.player_bet[p]
                         THEN "Check" ELSE "Call"]
         [] aa.kind = "Bet" /\ r.ok ->
              [gs |-> r.gs, taken |-> IF gs.bet = 0 THEN "Bet" ELSE "Raise"]
         [] aa.kind = "AllIn" /\ r.ok -> [gs |-> r.gs, taken |-> "AllIn"]

\* filter_event_for_seat without the test on the viewer
filter_event_for_seat_Unfiltered(event, seat) == event

\* filter_event_for_seat
filter_event_for_seat(event, seat) ==
    IF event.type = "HoleCardsDealt" /\ event.seat # seat
    THEN [event EXCEPT !.cards = Hidden]
    ELSE event

\* ------------------------------------------------------------------------
\* The events of a hand, in the order the historian emits them
\* ------------------------------------------------------------------------
NoRaises == [i \in 1..4 |-> 0]

\* count_raises_this_round: the Bet and Raise records of the current street
count_raises_this_round(gs) == street_raises[RoundIdx(gs.round)]

RECURSIVE HoleCardEvents(_, _, _)
HoleCardEvents(deal, dealt, p) ==
    IF p >= NumPlayers THEN << >>
    ELSE (IF p \in dealt
          THEN << [Event("HoleCardsDealt") EXCEPT !.seat = p, !.cards = deal[p]] >>
          ELSE << >>)
         \o HoleCardEvents(deal, dealt, p + 1)

\* RoundAdvance: a StreetChanged for every round from the i-th to the j-th
RECURSIVE StreetChanges(_, _)
StreetChanges(i, j) ==
    IF i > j THEN << >>
    ELSE << [Event("StreetChanged") EXCEPT !.action = Rounds[i]] >>
         \o StreetChanges(i + 1, j)

\* The rounds entered on the way from round r0 to round r1
StreetEvents(r0, r1) ==
    IF r1 = "Complete" THEN << >>
    ELSE StreetChanges(RoundIdx(r0) + 1, RoundIdx(r1))

\* Award: a PotAwarded for every seat whose stack the award raised
RECURSIVE PotAwards(_, _, _)
PotAwards(before, after, p) ==
    IF p >= NumPlayers THEN << >>
    ELSE (IF after[p] > before[p]
          THEN << [Event("PotAwarded") EXCEPT !.seat = p,
                                              !.amount = after[p] - before[p]] >>
          ELSE << >>)
         \o PotAwards(before, after, p + 1)

\* sim.run from the state gs, reached in round r0 with the events evs
\* emitted: either an agent is asked next, or the hand is awarded and
\* sim.run returns
SimContinues(r0, gs, evs) ==
    IF gs.round \in {"Showdown", "Complete"}
    THEN \E st \in Outcomes(gs) :
            /\ game_state' = [NoHand EXCEPT !.stacks = st]
            /\ event_q' = event_q \o evs \o StreetEvents(r0, gs.round)
                          \o PotAwards(gs.stacks, st, 0)
            /\ runnerPc' = "handend"
    ELSE /\ game_state' = gs
         /\ event_q' = event_q \o evs \o StreetEvents(r0, gs.round)
         /\ runnerPc' = "act"

EngineInit ==
    /\ runnerPc = "idle"
    /\ stacks = ZeroChips
    /\ dealer_idx = 0
    /\ hand_num = 0
    /\ game_state = NoHand
    /\ street_raises = NoRaises
    /\ sitting_out = {}
    /\ quit_signal = FALSE
    /\ in_game = {}
    /\ action_q = [p \in Players |-> << >>]
    /\ event_q = << >>
    /\ socket = [p \in Players |-> NoEvent]
    /\ game_finished = FALSE
    /\ queued_at_request = FALSE
    /\ left_mid_hand = NoSeat
    /\ acts_after_leave = 0
    /\ hands_after_quit = 0
    /\ out_at_start = {}
    /\ left_notified = {}
    /\ end_reason = "none"

\* What the engine leaves alone
ServerSide == << sitting_out, quit_signal, in_game, action_q, socket,
                 game_finished, left_mid_hand, left_notified >>

\* start_game registers every human with the ActiveGame and spawns the
\* threads; GameRunner::run with fewer than two players emits GameEnded
\* with reason Error and returns, otherwise it emits GameCreated and
\* GameStarted and gives every player the starting stack
RunnerStart(num_players) ==
    /\ runnerPc = "idle"
    /\ in_game' = 0..(num_players - 1)
    /\ IF num_players < 2
       THEN /\ event_q' = Append(event_q, [Event("GameEnded") EXCEPT !.reason = "Error"])
            /\ end_reason' = "Error"
            /\ runnerPc' = "done"
            /\ UNCHANGED stacks
       ELSE /\ event_q' = event_q \o << Event("GameCreated"), Event("GameStarted") >>
            /\ stacks' = [p \in Players |-> starting_stack]
            /\ runnerPc' = "loop"
            /\ UNCHANGED end_reason
    /\ UNCHANGED << dealer_idx, hand_num, game_state, street_raises, sitting_out,
                    quit_signal, action_q, socket, game_finished,
                    queued_at_request, left_mid_hand, acts_after_leave,
                    hands_after_quit, out_at_start,
                    left_notified >>
    /\ UNCHANGED << srvVars, lockVars, fanVars, rakeVars, adapterVars, frameVars, localVars, showVars, buyVars, roomVars, listVars >>

\* The test on max_hands, had it let one more hand through
hand_limit_reached_OneMore(n) == n > max_hands + 1

\* GameRunner::run, head of the hand loop: `hand_num > max`
hand_limit_reached(n) == n > max_hands

\* The players of the hand loop's test: chips and not sitting out
ActiveSeats(stk, out) == {p \in Players : stk[p] > 0 /\ p \notin out}

\* GameRunner::run, head of the hand loop: the tests that leave the loop
LoopHead ==
    LET leave == \/ quit_signal
                 \/ Cardinality(ActiveSeats(stacks, sitting_out)) <= 1
                 \/ hand_limit_reached(hand_num + 1)
    IN
    /\ runnerPc = "loop"
    /\ Len(event_q) <= MaxPending
    /\ hand_num' = hand_num + 1
    /\ runnerPc' = IF leave THEN "gameend" ELSE "start"
    /\ street_raises' = NoRaises
    /\ UNCHANGED << event_q, queued_at_request >>
    /\ UNCHANGED << stacks, dealer_idx, game_state, acts_after_leave,
                    hands_after_quit, out_at_start, end_reason >>
    /\ UNCHANGED ServerSide
    /\ UNCHANGED << srvVars, lockVars, fanVars, rakeVars, adapterVars, frameVars, localVars, showVars, buyVars, roomVars, listVars >>

\* GameRunner::run: HandStarted is emitted
HandStart ==
    /\ runnerPc = "start"
    /\ Len(event_q) <= MaxPending
    /\ runnerPc' = "setup"
    /\ event_q' = Append(event_q, [Event("HandStarted") EXCEPT
                                      !.seat = dealer_idx,
                                      !.amount = hand_num])
    /\ hands_after_quit' = IF quit_signal THEN Min(hands_after_quit + 1, 2)
                           ELSE hands_after_quit
    /\ out_at_start' = sitting_out
    /\ UNCHANGED queued_at_request
    /\ UNCHANGED << stacks, dealer_idx, hand_num, game_state, street_raises,
                    acts_after_leave, end_reason >>
    /\ UNCHANGED ServerSide
    /\ UNCHANGED << srvVars, lockVars, fanVars, rakeVars, adapterVars, frameVars, localVars, showVars, buyVars, roomVars, listVars >>

\* GameRunner::run: the sitting_out snapshot, the game state and the agents
\* of the hand, and sim.run up to the first decision: the cards are dealt
\* and the blinds posted
HandSetup ==
    LET game_stacks == [p \in Players |-> IF p \in sitting_out THEN 0 ELSE stacks[p]]
        gs0 == new_starting(game_stacks, dealer_idx)
        gs1 == post_blinds(gs0, dealer_idx)
        sb == NextIn(dealer_idx, gs0.player_active)
        bb == NextIn(sb, gs0.player_active)
        blinds == IF gs0.player_active = {} THEN << >>
                  ELSE << [Event("BlindPosted") EXCEPT !.seat = sb, !.action = "Small",
                              !.amount = gs0.stacks[sb] - do_forced_bet(gs0, sb, small_blind).stacks[sb]],
                          [Event("BlindPosted") EXCEPT !.seat = bb, !.action = "Big",
                              !.amount = do_forced_bet(gs0, sb, small_blind).stacks[bb] - gs1.stacks[bb]] >>
    IN
    /\ runnerPc = "setup"
    /\ Len(event_q) <= MaxPending
    /\ \E deal \in [Players -> Hands] :
          SimContinues("Preflop", advance(gs1, dealer_idx),
                       << [Event("StreetChanged") EXCEPT !.action = "Preflop"] >>
                       \o HoleCardEvents(deal, gs0.player_active, 0) \o blinds)
    /\ UNCHANGED queued_at_request
    /\ UNCHANGED << stacks, dealer_idx, hand_num, street_raises, acts_after_leave,
                    hands_after_quit, out_at_start, end_reason >>
    /\ UNCHANGED ServerSide
    /\ UNCHANGED << srvVars, lockVars, fanVars, rakeVars, adapterVars, frameVars, localVars, showVars, buyVars, roomVars, listVars >>

\* PlayerAdapter::act up to port.request_action: the ActionRequest is emitted
RequestAction ==
    /\ runnerPc = "act"
    /\ Len(event_q) <= MaxPending
    /\ runnerPc' = "await"
    /\ event_q' = Append(event_q, [Event("ActionRequest") EXCEPT
                                      !.seat = game_state.to_act_idx])
    /\ queued_at_request' = (action_q[game_state.to_act_idx] # << >>)
    /\ UNCHANGED << stacks, dealer_idx, hand_num, game_state, street_raises,
                    acts_after_leave, hands_after_quit, out_at_start, end_reason >>
    /\ UNCHANGED ServerSide
    /\ UNCHANGED << srvVars, lockVars, fanVars, rakeVars, adapterVars, frameVars, localVars, showVars, buyVars, roomVars, listVars >>

\* The rest of PlayerAdapter::act and of the simulation's step: the
\* response is converted, applied and recorded by the historian
Decide(p, response) ==
    LET valid == build_valid_actions(game_state, p, count_raises_this_round(game_state))
        aa == IF response.kind = "PortTimeout" THEN check_or_fold(valid)
              ELSE convert_action(response, valid)
        r == run_agent_action(game_state, p, aa)
        r0 == game_state.round
        g1 == IF r.gs.needs_action = {} THEN r.gs
              ELSE [r.gs EXCEPT !.to_act_idx = NextIn(p, r.gs.needs_action)]
        taken == IF r.taken = "none" THEN << >>
                 ELSE << [Event("ActionTaken") EXCEPT
                             !.seat = p, !.action = r.taken,
                             !.amount = IF r.taken \in {"Bet", "Raise"} THEN aa.amount
                                        ELSE r.gs.player_bet[p] - game_state.player_bet[p]] >>
    IN
    /\ SimContinues(r0, advance(g1, dealer_idx), taken)
    /\ street_raises' = IF r.taken \in {"Bet", "Raise"}
                        THEN [street_raises EXCEPT ![RoundIdx(r0)] = @ + 1]
                        ELSE street_raises
    /\ acts_after_leave' = IF r.taken # "none" /\ p = left_mid_hand
                           THEN Min(acts_after_leave + 1, 2)
                           ELSE acts_after_leave
    /\ UNCHANGED << stacks, dealer_idx, hand_num, hands_after_quit, out_at_start, end_reason >>
    /\ queued_at_request' = FALSE
    /\ UNCHANGED << sitting_out, quit_signal, in_game, socket,
                    game_finished, left_mid_hand, left_notified >>
    /\ UNCHANGED << srvVars, lockVars, fanVars, rakeVars, adapterVars, frameVars, localVars, showVars, buyVars, roomVars, listVars >>

\* RemotePlayer::request_action: recv_timeout returns the action at the
\* head of the seat's channel
ReceiveAction ==
    LET p == game_state.to_act_idx IN
    /\ runnerPc = "await"
    /\ Len(event_q) <= MaxPending
    /\ action_q[p] # << >>
    /\ action_q' = [action_q EXCEPT ![p] = Tail(@)]
    /\ Decide(p, Head(action_q[p]))

\* RemotePlayer::request_action: nothing arrives in time, or the channel is
\* empty and its sender dropped
ReceiveTimeout ==
    LET p == game_state.to_act_idx IN
    /\ runnerPc = "await"
    /\ Len(event_q) <= MaxPending
    /\ action_q[p] = << >>
    /\ UNCHANGED action_q
    /\ Decide(p, [kind |-> "PortTimeout", amount |-> 0])

\* GameRunner::next_active
next_active(start, stk, out) ==
    IF ActiveSeats(stk, out) = {} THEN start
    ELSE NextIn(start, ActiveSeats(stk, out))

\* GameRunner::run after sim.run: the stacks of the seats not sitting out
\* are taken from the simulation, HandEnded is emitted, the button moves
HandEnd ==
    LET new_stacks == [p \in Players |-> IF p \in sitting_out THEN stacks[p]
                                          ELSE game_state.stacks[p]]
    IN
    /\ runnerPc = "handend"
    /\ Len(event_q) <= MaxPending
    /\ stacks' = new_stacks
    /\ event_q' = Append(event_q, [Event("HandEnded") EXCEPT !.stacks = new_stacks])
    /\ dealer_idx' = next_active(dealer_idx, new_stacks, sitting_out)
    /\ game_state' = NoHand
    /\ runnerPc' = "loop"
    /\ UNCHANGED queued_at_request
    /\ UNCHANGED << hand_num, street_raises, acts_after_leave, hands_after_quit, out_at_start,
                    end_reason >>
    /\ UNCHANGED ServerSide
    /\ UNCHANGED << srvVars, lockVars, fanVars, rakeVars, adapterVars, frameVars, localVars, showVars, buyVars, roomVars, listVars >>

\* The reason of GameEnded, had the runner not looked at quit_signal
game_end_reason_AlwaysWinner(quit) == "Winner"

\* GameRunner::run: the reason GameEnded carries
game_end_reason(quit) == IF quit THEN "HostTerminated" ELSE "Winner"

\* GameRunner::run after the hand loop: GameEnded with the standings
GameEnd ==
    LET reason == game_end_reason(quit_signal) IN
    /\ runnerPc = "gameend"
    /\ Len(event_q) <= MaxPending
    /\ event_q' = Append(event_q, [Event("GameEnded") EXCEPT !.reason = reason,
                                                              !.stacks = stacks])
    /\ end_reason' = reason
    /\ runnerPc' = "done"
    /\ UNCHANGED queued_at_request
    /\ UNCHANGED << stacks, dealer_idx, hand_num, game_state, street_raises,
                    acts_after_leave, hands_after_quit, out_at_start >>
    /\ UNCHANGED ServerSide
    /\ UNCHANGED << srvVars, lockVars, fanVars, rakeVars, adapterVars, frameVars, localVars, showVars, buyVars, roomVars, listVars >>

\* What the server's threads leave alone
EngineSide == << runnerPc, stacks, dealer_idx, hand_num, game_state,
                 street_raises, acts_after_leave, hands_after_quit, out_at_start, end_reason >>

\* process_message, ClientMessage::Action, and ActiveGame::submit_action:
\* the action is sent on the channel of the sender's seat
SubmitAction(p, a) ==
    /\ runnerPc # "idle"
    /\ p \in in_game
    /\ Len(action_q[p]) < MaxQueued
    /\ action_q' = [action_q EXCEPT ![p] = Append(@, a)]
    /\ UNCHANGED queued_at_request
    /\ UNCHANGED << sitting_out, quit_signal, in_game, event_q, socket,
                    game_finished, left_mid_hand, left_notified >>
    /\ UNCHANGED EngineSide
    /\ UNCHANGED << srvVars, lockVars, fanVars, rakeVars, adapterVars, frameVars, localVars, showVars, buyVars, roomVars, listVars >>

\* handle_connection, disconnect cleanup of a player of the game:
\* ActiveGame::remove_player, signal_quit when no human is left, and the
\* broadcast of PlayerLeft with reason Disconnected to every connection
\* still at the table
PlayerDisconnect(p) ==
    /\ runnerPc # "idle"
    /\ p \in in_game
    /\ in_game' = in_game \ {p}
    /\ sitting_out' = sitting_out \cup {p}
    /\ quit_signal' = (quit_signal \/ in_game \ {p} = {})
    /\ left_mid_hand' = IF left_mid_hand = NoSeat /\ runnerPc \in {"act", "await"}
                        THEN p ELSE left_mid_hand
    /\ socket' = [v \in Players |->
                    IF v \in in_game \ {p}
                    THEN [Event("PlayerLeft") EXCEPT !.seat = p, !.reason = "Disconnected"]
                    ELSE socket[v]]
    /\ left_notified' = IF left_mid_hand' = p THEN in_game \ {p} ELSE left_notified
    /\ UNCHANGED << action_q, event_q, game_finished, queued_at_request >>
    /\ UNCHANGED EngineSide
    /\ UNCHANGED << srvVars, lockVars, fanVars, rakeVars, adapterVars, frameVars, localVars, showVars, buyVars, roomVars, listVars >>

\* start_game, the fan-out thread: the next event is filtered for every
\* seat not sitting out and written to its stream; GameEnded finishes the
\* game
FanoutDeliver ==
    LET event == Head(event_q) IN
    /\ event_q # << >>
    /\ event_q' = Tail(event_q)
    /\ socket' = [v \in Players |->
                    IF v \in sitting_out THEN socket[v]
                    ELSE filter_event_for_seat(event, v)]
    /\ game_finished' = (game_finished \/ event.type = "GameEnded")
    /\ UNCHANGED queued_at_request
    /\ UNCHANGED << sitting_out, quit_signal, in_game, action_q,
                    left_mid_hand, left_notified >>
    /\ UNCHANGED EngineSide
    /\ UNCHANGED << srvVars, lockVars, fanVars, rakeVars, adapterVars, frameVars, localVars, showVars, buyVars, roomVars, listVars >>

NextEngine ==
    \/ \E num_players \in PlayerCounts : RunnerStart(num_players)
    \/ LoopHead
    \/ HandStart
    \/ HandSetup
    \/ RequestAction
    \/ ReceiveAction
    \/ ReceiveTimeout
    \/ HandEnd
    \/ GameEnd
    \/ \E p \in Players, a \in PlayerActions : SubmitAction(p, a)
    \/ \E p \in Players : PlayerDisconnect(p)
    \/ FanoutDeliver

\* ------------------------------------------------------------------------
\* The fan-out thread and the streams it writes to (start_game)
\* ------------------------------------------------------------------------
MaxEmitted == 3

FanInit ==
    /\ stream_conn = [p \in Players |-> NoConn]
    /\ emitted = << >>
    /\ wire = [c \in Conns |-> << >>]

\* The human_players a GameStartInfo may carry: one (conn_id, seat) entry for
\* every seat of the players map, whichever connection holds it
Registrations == [Players -> Conns]

\* The events the engine may emit next
FanEvents ==
    {[Event("HoleCardsDealt") EXCEPT !.seat = p, !.cards = h] :
        p \in Players, h \in Hands}
    \cup {[Event("ActionRequest") EXCEPT !.seat = p] : p \in Players}
    \cup {Event("HandEnded")}

\* start_game: a clone of the stream of every human player is pushed to
\* player_streams under the player's game seat
FanStart ==
    /\ stream_conn = [p \in Players |-> NoConn]
    /\ \E reg \in Registrations : stream_conn' = reg
    /\ UNCHANGED << emitted, wire >>
    /\ UNCHANGED << srvVars, lockVars, engVars, rakeVars, adapterVars, frameVars, localVars, showVars, buyVars, roomVars, listVars >>

\* GameRunner::emit: the event is sent on the channel to the fan-out thread
FanEmit(e) ==
    /\ stream_conn # [p \in Players |-> NoConn]
    /\ Len(emitted) < MaxEmitted
    /\ emitted' = Append(emitted, e)
    /\ event_q' = Append(event_q, e)
    /\ UNCHANGED << stream_conn, wire >>
    /\ UNCHANGED << runnerPc, stacks, dealer_idx, hand_num, game_state,
                    street_raises, sitting_out, quit_signal, in_game, action_q,
                    socket, game_finished, queued_at_request, left_mid_hand,
                    acts_after_leave, hands_after_quit, out_at_start, left_notified, end_reason >>
    /\ UNCHANGED << srvVars, lockVars, rakeVars, adapterVars, frameVars, localVars, showVars, buyVars, roomVars, listVars >>

\* ActiveGame::remove_player: the seat joins sitting_out
FanLeave(p) ==
    /\ stream_conn # [q \in Players |-> NoConn]
    /\ p \notin sitting_out
    /\ sitting_out' = sitting_out \cup {p}
    /\ UNCHANGED << runnerPc, stacks, dealer_idx, hand_num, game_state,
                    street_raises, quit_signal, in_game, action_q, event_q,
                    socket, game_finished, queued_at_request, left_mid_hand,
                    acts_after_leave, hands_after_quit, out_at_start, left_notified, end_reason >>
    /\ UNCHANGED fanVars
    /\ UNCHANGED << srvVars, lockVars, rakeVars, adapterVars, frameVars, localVars, showVars, buyVars, roomVars, listVars >>

\* The fan-out loop over player_streams from seat p on: the filtered event
\* is written to the stream of every seat not in the set `disconnected`
RECURSIVE write_streams(_, _, _, _)
write_streams(w, event, disconnected, p) ==
    IF p >= NumPlayers THEN w
    ELSE write_streams(
            IF p \in disconnected THEN w
            ELSE [w EXCEPT ![stream_conn[p]] =
                      Append(@, filter_event_for_seat(event, p))],
            event, disconnected, p + 1)

\* start_game, the fan-out thread: one iteration of its receive loop
FanDeliver ==
    /\ event_q # << >>
    /\ stream_conn # [p \in Players |-> NoConn]
    /\ event_q' = Tail(event_q)
    /\ wire' = write_streams(wire, Head(event_q), sitting_out, 0)
    /\ UNCHANGED << stream_conn, emitted >>
    /\ UNCHANGED << runnerPc, stacks, dealer_idx, hand_num, game_state,
                    street_raises, sitting_out, quit_signal, in_game, action_q,
                    socket, game_finished, queued_at_request, left_mid_hand,
                    acts_after_leave, hands_after_quit, out_at_start, left_notified, end_reason >>
    /\ UNCHANGED << srvVars, lockVars, rakeVars, adapterVars, frameVars, localVars, showVars, buyVars, roomVars, listVars >>

NextFanout ==
    \/ FanStart
    \/ \E e \in FanEvents : FanEmit(e)
    \/ \E p \in Players : FanLeave(p)
    \/ FanDeliver

\* ------------------------------------------------------------------------
\* A game with rake (GameConfig.rake_percent > 0, no cap, no_flop_no_drop
\* off): the hands as the runner and the historian account for them
\* ------------------------------------------------------------------------
rake_percent == 5
MaxRakeHands == 2

\* EventHistorian::record_action, Award: the rake of one award, rounded to
\* hundredths (amount whole chips, rake_percent whole percent)
rake_of(award_amount) == award_amount * rake_percent

\* The rake of the awards that took the stacks from `before` to `after`
rake_of_awards(before, after) ==
    SumOver([p \in Players |-> IF after[p] > before[p]
                               THEN rake_of(after[p] - before[p]) ELSE 0],
            Players)

\* The chips the seats may have put in when the hand is awarded
Committed == [Players -> small_blind..(starting_stack * NumPlayers)]

\* GameRunner::run, one hand of a game with rake: sim.run awards the chips
\* the seats committed, the historian records the awards, the runner copies
\* the stacks of the simulation and emits HandEnded
HandWithRake(c, o) ==
    LET after_bets == [p \in Players |-> stacks[p] - c[p]]
        new_stacks == award(c, after_bets, o)
    IN
    /\ runnerPc = "loop"
    /\ hand_num < MaxRakeHands
    /\ \A p \in Players : c[p] <= stacks[p]
    /\ Cardinality(ActiveSeats(stacks, sitting_out)) >= 2
    /\ hand_num' = hand_num + 1
    /\ rake_collected' = rake_collected + rake_of_awards(after_bets, new_stacks)
    /\ stacks' = new_stacks
    /\ UNCHANGED << runnerPc, dealer_idx, game_state, street_raises, sitting_out,
                    quit_signal, in_game, action_q, event_q, socket,
                    game_finished, queued_at_request, left_mid_hand,
                    acts_after_leave, hands_after_quit, out_at_start, left_notified, end_reason >>
    /\ UNCHANGED << srvVars, lockVars, fanVars, adapterVars, frameVars, localVars, showVars, buyVars, roomVars, listVars >>

NextRake ==
    \/ \E num_players \in PlayerCounts : RunnerStart(num_players)
    \/ \E c \in Committed : \E o \in Orders(Players) : HandWithRake(c, o)

\* ------------------------------------------------------------------------
\* PlayerAdapter (src/src/engine/adapter.rs), no-limit betting: one call of
\* act on a game state given by the chips of the seat to act, the bet of
\* the round, the seat's own bet and the minimum raise
\* ------------------------------------------------------------------------
MaxStack == 3
MaxBet == 3
MaxCap == 2

NoRaiseOptions == [min_raise |-> 0, max_raise |-> 0]
NoDecision == [response |-> [kind |-> "none", amount |-> 0]]

\* PlayerAdapter::compute_raise_options, BettingStructure::NoLimit
compute_raise_options(stack, current_bet, my_bet, min_raise) ==
    IF stack > current_bet - my_bet /\ stack + my_bet >= current_bet + min_raise
    THEN [min_raise |-> current_bet + min_raise, max_raise |-> stack + my_bet]
    ELSE NoRaiseOptions

\* PlayerAdapter::build_valid_actions with every field of ValidActions, for
\* an adapter whose max_raises_per_round is cap
valid_actions(cap, raises_this_round, stack, current_bet, my_bet, min_raise) ==
    LET to_call == current_bet - my_bet
        raise_cap_reached == raises_this_round >= cap
    IN [can_fold |-> to_call > 0,
        can_check |-> to_call <= 0,
        call_amount |-> IF to_call > 0 THEN Min(to_call, stack) ELSE 0,
        raise_options |-> IF raise_cap_reached THEN NoRaiseOptions
                          ELSE compute_raise_options(stack, current_bet, my_bet, min_raise),
        can_all_in |-> stack > 0 /\ ~raise_cap_reached,
        all_in_amount |-> stack + my_bet]

\* The PlayerResponse of a port: an action, an admin request, a timeout
\* (RemotePlayer::request_action: nothing received in time, or the channel
\* empty with its sender dropped), or the response channel closed
Responses ==
    {[kind |-> k, amount |-> 0] : k \in {"Fold", "Check", "Call", "AllIn", "Timeout"}}
    \cup {[kind |-> k, amount |-> a] : k \in {"Bet", "Raise"}, a \in 1..(MaxBet + MaxStack)}
    \cup {[kind |-> k, amount |-> 0] : k \in {"Admin", "PortTimeout", "Closed"}}

\* PlayerAdapter::convert_response, and the Err arm of act
convert_response(response, valid) ==
    IF response.kind \in {"Admin", "PortTimeout", "Closed"} THEN check_or_fold(valid)
    ELSE convert_action(response, valid)

\* PlayerAdapter::act
Act(cap, raises, stack, current_bet, my_bet, min_raise, response) ==
    LET valid == valid_actions(cap, raises, stack, current_bet, my_bet, min_raise) IN
    /\ my_bet <= current_bet
    /\ decision' = [response |-> response,
                    max_raises_per_round |-> cap,
                    raises_this_round |-> raises,
                    stack |-> stack,
                    current_bet |-> current_bet,
                    my_bet |-> my_bet,
                    min_raise |-> min_raise,
                    valid |-> valid,
                    agent_action |-> convert_response(response, valid)]
    /\ UNCHANGED << srvVars, lockVars, engVars, fanVars, rakeVars, frameVars, localVars, showVars, buyVars, roomVars, listVars >>

\* The adapter is asked once
NextAdapter ==
    /\ decision = NoDecision
    /\ \E cap \in 0..MaxCap, raises \in 0..MaxCap, stack \in 1..MaxStack,
          current_bet \in 0..MaxBet, my_bet \in 0..MaxBet, min_raise \in 1..big_blind,
          response \in Responses :
           Act(cap, raises, stack, current_bet, my_bet, min_raise, response)


\* ------------------------------------------------------------------------
\* Wire codec (src/src/net/protocol.rs, src/src/net/server.rs)
\* ------------------------------------------------------------------------
\* A Vec<u8> is kept as its runs: << [b |-> byte, n |-> count], ... >>, no two
\* neighbouring runs of the same byte
MAX_MESSAGE_SIZE == 65536

\* handle_connection: vec![0u8; 4096]
READ_BUF == 4096

MaxFrames == 2
MaxShortReads == 1
\* The size of a read that returns less than was there
ShortRead == 3
\* The longest chat text: one byte more than fits in a frame
MaxText == 65512

\* Vec::len
RECURSIVE byte_len(_)
byte_len(r) ==
    IF r = <<>> THEN 0
    ELSE IF Len(r) = 1 THEN r[1].n
    ELSE LET h == Len(r) \div 2 IN
         byte_len(SubSeq(r, 1, h)) + byte_len(SubSeq(r, h + 1, Len(r)))

\* Vec::extend / extend_from_slice
extend(r, s) ==
    IF r = <<>> THEN s
    ELSE IF s = <<>> THEN r
    ELSE IF r[Len(r)].b = s[1].b
         THEN SubSeq(r, 1, Len(r) - 1)
                  \o << [b |-> s[1].b, n |-> r[Len(r)].n + s[1].n] >> \o Tail(s)
         ELSE r \o s

\* The Vec of the bytes listed in s
RECURSIVE push_all(_, _)
push_all(r, s) ==
    IF s = <<>> THEN r
    ELSE IF r # <<>> /\ r[Len(r)].b = s[1]
         THEN push_all(SubSeq(r, 1, Len(r) - 1)
                           \o << [b |-> s[1], n |-> r[Len(r)].n + 1] >>, Tail(s))
         ELSE push_all(Append(r, [b |-> s[1], n |-> 1]), Tail(s))

from_bytes(s) == push_all(<<>>, s)

\* n times the byte b
repeat(b, n) == IF n = 0 THEN <<>> ELSE << [b |-> b, n |-> n] >>

\* &buf[..k]
RECURSIVE take(_, _)
take(r, k) ==
    IF k = 0 \/ r = <<>> THEN <<>>
    ELSE IF r[1].n <= k THEN << r[1] >> \o take(Tail(r), k - r[1].n)
    ELSE << [b |-> r[1].b, n |-> k] >>

\* Vec::drain(..k)
RECURSIVE drain(_, _)
drain(r, k) ==
    IF k = 0 \/ r = <<>> THEN r
    ELSE IF r[1].n <= k THEN drain(Tail(r), k - r[1].n)
    ELSE << [b |-> r[1].b, n |-> r[1].n - k] >> \o Tail(r)

\* buf[i - 1]
RECURSIVE byte_at(_, _)
byte_at(r, i) == IF i <= r[1].n THEN r[1].b ELSE byte_at(Tail(r), i - r[1].n)

\* ClientMessage: Chat with a text of `text` letters a, and ListTables
NoMessage == [type |-> "none", text |-> 0]
ListTablesMsg == [type |-> "list_tables", text |-> 0]
Chat(n) == [type |-> "chat", text |-> n]
TextLens == {0, 1, MaxText - 1, MaxText}
ClientMessages == {ListTablesMsg} \cup {Chat(n) : n \in TextLens}

\* {"type":"list_tables"}
ListTablesJson ==
    from_bytes(<< 123, 34, 116, 121, 112, 101, 34, 58, 34, 108, 105, 115, 116,
                  95, 116, 97, 98, 108, 101, 115, 34, 125 >>)

\* {"type":"chat","text":"
ChatJsonHead ==
    from_bytes(<< 123, 34, 116, 121, 112, 101, 34, 58, 34, 99, 104, 97, 116,
                  34, 44, 34, 116, 101, 120, 116, 34, 58, 34 >>)

\* "}
ChatJsonTail == from_bytes(<< 34, 125 >>)

\* serde_json::to_string of a ClientMessage (tag = "type", snake_case):
\* {"type":"list_tables"} and {"type":"chat","text":"aa...a"}
to_string(m) ==
    IF m.type = "list_tables" THEN ListTablesJson
    ELSE extend(extend(ChatJsonHead, repeat(97, m.text)), ChatJsonTail)

\* serde_json::from_str::<ClientMessage>(..).ok()
from_str(json) ==
    IF json = to_string(ListTablesMsg) THEN ListTablesMsg
    ELSE LET n == byte_len(json) - byte_len(to_string(Chat(0))) IN
         IF n >= 0 /\ json = to_string(Chat(n)) THEN Chat(n) ELSE NoMessage

\* u32::to_le_bytes: the length prefix in the wrong byte order
to_le_bytes(len) ==
    from_bytes(<< len % 256, (len \div 256) % 256, (len \div 65536) % 256,
                  len \div 16777216 >>)

\* u32::to_be_bytes
to_be_bytes(len) ==
    from_bytes(<< len \div 16777216, (len \div 65536) % 256, (len \div 256) % 256,
                  len % 256 >>)

\* The frame of a JSON body: json.len() as u32, big-endian, then the body
\* (the bodies here are shorter than 2^32 bytes: the cast keeps the length)
frame_of(json) == extend(to_be_bytes(byte_len(json)), json)

\* protocol.rs encode_message
encode_message(m) == frame_of(to_string(m))

\* A complete frame whose body, {}, is no ClientMessage
InvalidFrame == frame_of(from_bytes(<< 123, 125 >>))

\* protocol.rs decode_length (asked only of four bytes or more); a length of
\* 2^31 or more is kept as 2^31 - 1, its only use is the comparison with
\* MAX_MESSAGE_SIZE
decode_length(buf) ==
    IF byte_at(buf, 1) >= 128 THEN 2147483647
    ELSE byte_at(buf, 1) * 16777216 + byte_at(buf, 2) * 65536
             + byte_at(buf, 3) * 256 + byte_at(buf, 4)

\* server.rs try_decode_message: the buffer it leaves and the Option it returns
try_decode_message(buf) ==
    IF byte_len(buf) < 4 THEN [buf |-> buf, msg |-> NoMessage]
    ELSE LET len == decode_length(buf) IN
         IF len > MAX_MESSAGE_SIZE THEN [buf |-> <<>>, msg |-> NoMessage]
         ELSE IF byte_len(buf) < 4 + len THEN [buf |-> buf, msg |-> NoMessage]
         ELSE [buf |-> drain(buf, 4 + len),
               msg |-> from_str(take(drain(buf, 4), len))]

\* handle_connection: while let Some(msg) = try_decode_message(&mut pending)
\* { process_message(..) }
RECURSIVE decode_pass(_, _)
decode_pass(buf, out) ==
    LET r == try_decode_message(buf) IN
    IF r.msg = NoMessage THEN [buf |-> r.buf, out |-> out]
    ELSE decode_pass(r.buf, Append(out, r.msg))

NoDecoded == [msg |-> NoMessage, result |-> [buf |-> <<>>, msg |-> NoMessage]]

FrameInit ==
    /\ inbound = <<>>
    /\ pending = <<>>
    /\ dispatched = <<>>
    /\ frames_sent = 0
    /\ short_reads = 0
    /\ decoded = NoDecoded

Frames == {encode_message(m) : m \in ClientMessages} \cup {InvalidFrame}

\* A stream of small complete frames whose bodies are no JSON at all:
\* FloodFrames frames of GarbageBody letters x each
GarbageBody == 1020
FloodFrames == 92
GarbageFrame == frame_of(repeat(120, GarbageBody))

RECURSIVE copies(_, _)
copies(f, n) == IF n = 0 THEN <<>> ELSE f \o copies(f, n - 1)

Flood == copies(GarbageFrame, FloodFrames)

\* The peer writes one frame
PeerSend(f) ==
    /\ frames_sent < MaxFrames
    /\ frames_sent' = frames_sent + 1
    /\ inbound' = extend(inbound, f)
    /\ UNCHANGED << pending, dispatched, short_reads, decoded >>
    /\ UNCHANGED << srvVars, lockVars, engVars, fanVars, rakeVars, adapterVars, localVars, showVars, buyVars, roomVars, listVars >>

\* The peer writes the stream of garbage frames, and nothing else
PeerFlood ==
    /\ frames_sent = 0
    /\ frames_sent' = MaxFrames
    /\ inbound' = Flood
    /\ UNCHANGED << pending, dispatched, short_reads, decoded >>
    /\ UNCHANGED << srvVars, lockVars, engVars, fanVars, rakeVars, adapterVars, localVars, showVars, buyVars, roomVars, listVars >>

\* handle_connection: one reader.read of n bytes and the decode pass after it
Read(n) ==
    LET avail == byte_len(inbound)
        k == Min(n, avail)
        r == decode_pass(extend(pending, take(inbound, k)), dispatched) IN
    /\ avail > 0
    /\ k < Min(READ_BUF, avail) => short_reads < MaxShortReads
    /\ short_reads' = IF k < Min(READ_BUF, avail) THEN short_reads + 1
                      ELSE short_reads
    /\ inbound' = drain(inbound, k)
    /\ pending' = r.buf
    /\ dispatched' = r.out
    /\ UNCHANGED << frames_sent, decoded >>
    /\ UNCHANGED << srvVars, lockVars, engVars, fanVars, rakeVars, adapterVars, localVars, showVars, buyVars, roomVars, listVars >>

\* try_decode_message on a buffer holding exactly encode_message(m)
Decode(m) ==
    /\ decoded = NoDecoded
    /\ decoded' = [msg |-> m, result |-> try_decode_message(encode_message(m))]
    /\ UNCHANGED << inbound, pending, dispatched, frames_sent, short_reads >>
    /\ UNCHANGED << srvVars, lockVars, engVars, fanVars, rakeVars, adapterVars, localVars, showVars, buyVars, roomVars, listVars >>

NextFrame ==
    \/ \E f \in Frames : PeerSend(f)
    \/ PeerFlood
    \/ \E n \in {ShortRead, READ_BUF} : Read(n)
    \/ \E m \in ClientMessages : Decode(m)


\* ------------------------------------------------------------------------
\* The local lobby backend (src/src/lobby/mod.rs)
\* ------------------------------------------------------------------------
\* TableConfig.max_players of the table the host joins
local_max_players == 3
\* The roster of the local backend: the ids of its PlayerConfigs
LocalRosterSize == 3
\* The highest seat index the lobby is followed to
MaxLocalSeat == 4

LocalRoster == 1..LocalRosterSize
HostId == 0

LobbyPlayer(seat, id, human) == [seat |-> seat, id |-> id, is_human |-> human]

\* current_table.map(|t| t.max_players).unwrap_or(6)
LocalMax == IF local_table = NoTable THEN 6 ELSE local_max_players

\* The roster entries no lobby player uses
LocalAvailable(lp) == {a \in LocalRoster : \A i \in 1..Len(lp) : lp[i].id # a}

LocalSeats(lp) == {lp[i].seat : i \in 1..Len(lp)}

\* lobby_players.iter().filter_map(|p| p.seat).map(|s| s.0).max()
\*     .map(|m| Seat(m + 1)).unwrap_or(Seat(0))
next_seat(lp) ==
    IF lp = <<>> THEN 0
    ELSE (CHOOSE m \in LocalSeats(lp) : \A s \in LocalSeats(lp) : s <= m) + 1

\* The seat find_empty_seat would give: the lowest of 0..max-1 nobody holds
lowest_empty_seat(lp, max) ==
    LET free == {s \in 0..(max - 1) : s \notin LocalSeats(lp)}
    IN IF free = {} THEN NoSeat
       ELSE CHOOSE s \in free : \A x \in free : s <= x

\* The lists auto_fill_lobby may add: shuffled roster entries that passed
\* their join_probability, each seated at Seat(lobby_players.len())
Fills(max) ==
    {f \in UNION {[1..n -> LocalRoster] : n \in 0..(max - 1)} :
        \A i, j \in DOMAIN f : i # j => f[i] # f[j]}

LocalInit ==
    /\ local_table = NoTable
    /\ lobby_players = <<>>

\* LocalBackend::send, LobbyCommand::JoinTable (with auto_fill_lobby)
LocalJoinTable(f) ==
    /\ Len(f) <= local_max_players - 1
    /\ local_table' = 1
    /\ lobby_players' = << LobbyPlayer(0, HostId, TRUE) >>
                           \o [i \in 1..Len(f) |-> LobbyPlayer(i, f[i], FALSE)]
    /\ UNCHANGED << srvVars, lockVars, engVars, fanVars, rakeVars, adapterVars, frameVars, showVars, buyVars, roomVars, listVars >>

\* LocalBackend::send, LobbyCommand::LeaveTable
LocalLeaveTable ==
    /\ local_table' = NoTable
    /\ lobby_players' = <<>>
    /\ UNCHANGED << srvVars, lockVars, engVars, fanVars, rakeVars, adapterVars, frameVars, showVars, buyVars, roomVars, listVars >>

\* LocalBackend::send, LobbyCommand::AddAI
LocalAddAI(a) ==
    /\ Len(lobby_players) < LocalMax
    /\ a \in LocalAvailable(lobby_players)
    /\ next_seat(lobby_players) <= MaxLocalSeat
    /\ lobby_players' = Append(lobby_players,
                               LobbyPlayer(next_seat(lobby_players), a, FALSE))
    /\ UNCHANGED local_table
    /\ UNCHANGED << srvVars, lockVars, engVars, fanVars, rakeVars, adapterVars, frameVars, showVars, buyVars, roomVars, listVars >>

\* LocalBackend::send, LobbyCommand::RemoveAI
LocalRemoveAI(seat) ==
    LET hits == {i \in 1..Len(lobby_players) :
                   lobby_players[i].seat = seat /\ ~lobby_players[i].is_human}
    IN /\ hits # {}
       /\ LET idx == CHOOSE i \in hits : \A j \in hits : i <= j
          IN lobby_players' = SubSeq(lobby_players, 1, idx - 1)
                                  \o SubSeq(lobby_players, idx + 1, Len(lobby_players))
       /\ UNCHANGED local_table
       /\ UNCHANGED << srvVars, lockVars, engVars, fanVars, rakeVars, adapterVars, frameVars, showVars, buyVars, roomVars, listVars >>

NextLocal ==
    \/ \E f \in Fills(local_max_players) : LocalJoinTable(f)
    \/ LocalLeaveTable
    \/ \E a \in LocalRoster : LocalAddAI(a)
    \/ \E seat \in 0..MaxLocalSeat : LocalRemoveAI(seat)

\* ------------------------------------------------------------------------
\* The cards of one hand: what EventHistorian and GameRunner::run put into
\* the events of a hand, and what the fan-out thread writes to each viewer
\* ------------------------------------------------------------------------
ShowPlayers == 3
ShowSeats == 0..(ShowPlayers - 1)

NoShown == [p \in ShowSeats |-> NoCards]

\* A GameEvent of the hand: HoleCardsDealt{seat, cards}, ActionTaken{seat},
\* ShowdownReveal{reveals}, HandEnded{results[..].showed_cards}
HandEvent(type, seat, cards, showed) ==
    [type |-> type, seat |-> seat, cards |-> cards, showed |-> showed]

\* The cards of the seats whose folded flag is not set
Unfolded(hole, fl) == [p \in ShowSeats |-> IF p \in fl THEN NoCards ELSE hole[p]]

\* start_game, the fan-out thread: the events, filtered for every viewer
Written(evs) ==
    [v \in ShowSeats |-> seen[v] \cup {filter_event_for_seat(e, v) : e \in evs}]

ShowInit ==
    /\ original_hole_cards = NoShown
    /\ folded = {}
    /\ sim_active = ShowSeats
    /\ showPc = "deal"
    /\ reached_showdown = FALSE
    /\ seen = [v \in ShowSeats |-> {}]

\* EventHistorian::capture_and_emit_hole_cards
DealHoleCards(deal) ==
    /\ showPc = "deal"
    /\ original_hole_cards' = deal
    /\ seen' = Written({HandEvent("HoleCardsDealt", p, deal[p], NoShown) : p \in ShowSeats})
    /\ showPc' = "bet"
    /\ UNCHANGED << folded, sim_active, reached_showdown >>
    /\ UNCHANGED << srvVars, lockVars, engVars, fanVars, rakeVars, adapterVars, frameVars, localVars, buyVars, roomVars, listVars >>

\* EventHistorian::record_action, PlayedAction with AgentAction::Fold: the
\* folded flag is set and ActionTaken emitted
AgentFolds(p) ==
    /\ showPc = "bet"
    /\ p \in sim_active
    /\ sim_active' = sim_active \ {p}
    /\ folded' = folded \cup {p}
    /\ seen' = Written({HandEvent("ActionTaken", p, NoCards, NoShown)})
    /\ showPc' = IF Cardinality(sim_active') = 1 THEN "ended" ELSE "bet"
    /\ UNCHANGED << original_hole_cards, reached_showdown >>
    /\ UNCHANGED << srvVars, lockVars, engVars, fanVars, rakeVars, adapterVars, frameVars, localVars, buyVars, roomVars, listVars >>

\* A refused bet: the simulation folds the player and records a
\* FailedAction, which EventHistorian::record_action ignores
AgentFails(p) ==
    /\ showPc = "bet"
    /\ p \in sim_active
    /\ sim_active' = sim_active \ {p}
    /\ showPc' = IF Cardinality(sim_active') = 1 THEN "ended" ELSE "bet"
    /\ UNCHANGED << original_hole_cards, folded, reached_showdown, seen >>
    /\ UNCHANGED << srvVars, lockVars, engVars, fanVars, rakeVars, adapterVars, frameVars, localVars, buyVars, roomVars, listVars >>

\* EventHistorian::record_action, RoundAdvance(Showdown): ShowdownReveal
\* with the cards of every seat whose folded flag is not set
Showdown ==
    /\ showPc = "bet"
    /\ Cardinality(sim_active) >= 2
    /\ reached_showdown' = TRUE
    /\ seen' = Written({HandEvent("ShowdownReveal", NoSeat, NoCards,
                                  Unfolded(original_hole_cards, folded))})
    /\ showPc' = "ended"
    /\ UNCHANGED << original_hole_cards, folded, sim_active >>
    /\ UNCHANGED << srvVars, lockVars, engVars, fanVars, rakeVars, adapterVars, frameVars, localVars, buyVars, roomVars, listVars >>

\* GameRunner::run after sim.run: HandEnded, showed_cards being the hole
\* cards of every seat whose folded flag is not set
EmitHandEnded ==
    /\ showPc = "ended"
    /\ seen' = Written({HandEvent("HandEnded", NoSeat, NoCards,
                                  Unfolded(original_hole_cards, folded))})
    /\ showPc' = "done"
    /\ UNCHANGED << original_hole_cards, folded, sim_active, reached_showdown >>
    /\ UNCHANGED << srvVars, lockVars, engVars, fanVars, rakeVars, adapterVars, frameVars, localVars, buyVars, roomVars, listVars >>

NextShow ==
    \/ \E deal \in [ShowSeats -> Hands] : DealHoleCards(deal)
    \/ \E p \in ShowSeats : AgentFolds(p)
    \/ \E p \in ShowSeats : AgentFails(p)
    \/ Showdown
    \/ EmitHandEnded

\* ------------------------------------------------------------------------
\* TableConfig (src/src/table.rs): the buy-in the server debits and the
\* starting stack it gives the engine
\* ------------------------------------------------------------------------
\* Option<f32>::None
NoAmount == -1

CashBuyInDefault == 40
SitNGoBuyInDefault == 50
CashStackDefault == 100
SitNGoStackDefault == 1500

MinBuyIn == 20
MaxBuyIn == 100
MinWallet == 30
MaxWallet == 200

unwrap_or(opt, dflt) == IF opt = NoAmount THEN dflt ELSE opt

TableConfig(format, min_buy_in, buy_in, stack) ==
    [format |-> format, min_buy_in |-> min_buy_in, buy_in |-> buy_in,
     starting_stack |-> stack]

\* The table files the server may be started with
TableConfigs ==
    { TableConfig(f, m, b, s) :
        f \in {"Cash", "SitNGo"},
        m \in {NoAmount, MinBuyIn, CashBuyInDefault, MaxBuyIn},
        b \in {NoAmount, SitNGoBuyInDefault},
        s \in {NoAmount, SitNGoStackDefault} }

\* TableConfig::effective_buy_in
effective_buy_in(config) ==
    IF config.format = "Cash" THEN unwrap_or(config.min_buy_in, CashBuyInDefault)
    ELSE unwrap_or(config.buy_in, SitNGoBuyInDefault)

\* TableConfig::effective_starting_stack
effective_starting_stack(config) ==
    IF config.format = "Cash" THEN unwrap_or(config.min_buy_in, CashStackDefault)
    ELSE unwrap_or(config.starting_stack, SitNGoStackDefault)

\* build_runner_config
build_runner_config(config) ==
    [starting_stack |-> effective_starting_stack(config)]

BuyInit ==
    /\ table_config = TableConfig("Cash", NoAmount, NoAmount, NoAmount)
    /\ wallet = 0
    /\ debited = 0
    /\ runner_stack = 0
    /\ buyPc = "config"

\* The server loads the table, a player with some bankroll sits down
LoadTable(config, bankroll) ==
    /\ buyPc = "config"
    /\ table_config' = config
    /\ wallet' = bankroll
    /\ buyPc' = "loaded"
    /\ UNCHANGED << debited, runner_stack >>
    /\ UNCHANGED << srvVars, lockVars, engVars, fanVars, rakeVars, adapterVars, frameVars, localVars, showVars, roomVars, listVars >>

\* process_message, Ready with every seat ready: the buy-in closure debits
\* effective_buy_in, and start_game builds the engine's RunnerConfig
StartCashier ==
    LET buy_in == effective_buy_in(table_config) IN
    /\ buyPc = "loaded"
    /\ IF wallet < buy_in
       THEN /\ buyPc' = "refused"
            /\ UNCHANGED << wallet, debited, runner_stack >>
       ELSE /\ wallet' = wallet - buy_in
            /\ debited' = buy_in
            /\ runner_stack' = build_runner_config(table_config).starting_stack
            /\ buyPc' = "started"
    /\ UNCHANGED table_config
    /\ UNCHANGED << srvVars, lockVars, engVars, fanVars, rakeVars, adapterVars, frameVars, localVars, showVars, roomVars, listVars >>

NextBuyIn ==
    \/ \E config \in TableConfigs, bankroll \in {MinWallet, MaxBuyIn, MaxWallet} :
          LoadTable(config, bankroll)
    \/ StartCashier

\* ------------------------------------------------------------------------
\* Seat numbers (src/src/net/server.rs): a table of RoomSize seats whose
\* humans join and leave and whose host adds and removes AI players, and
\* the game seats start_game gives them.  Every human at the table sends
\* Ready before the game starts.
\* ------------------------------------------------------------------------
RoomSize == 3
RoomHumans == 3
RoomSeats == 0..(RoomSize - 1)
RoomConns == 1..RoomHumans

NoLeft == [lobby |-> NoSeat, game |-> NoSeat]

\* TableRoom::find_empty_seat on the three-seat table
room_empty_seat(pl, ai) ==
    LET free == {s \in RoomSeats : pl[s] = NoConn /\ s \notin ai}
    IN IF free = {} THEN NoSeat
       ELSE CHOOSE s \in free : \A x \in free : s <= x

\* The lobby seat of connection c
room_seat_of(pl, c) ==
    IF \E s \in RoomSeats : pl[s] = c
    THEN CHOOSE s \in RoomSeats : pl[s] = c
    ELSE NoSeat

\* start_game: game_seat of the player at lobby seat s, its index in
\* all_players sorted by lobby seat
game_seat(pl, ai, s) ==
    Cardinality({x \in RoomSeats : x < s /\ (pl[x] # NoConn \/ x \in ai)})

RoomInit ==
    /\ room_status = "Waiting"
    /\ room_players = [s \in RoomSeats |-> NoConn]
    /\ room_ai = {}
    /\ joined_seat = [c \in RoomConns |-> NoSeat]
    /\ conn_to_seat = [c \in RoomConns |-> NoSeat]
    /\ last_left = NoLeft

\* process_message, ClientMessage::JoinTable: TableJoined{seat}
RoomJoin(c) ==
    LET seat == room_empty_seat(room_players, room_ai) IN
    /\ room_status = "Waiting"
    /\ room_seat_of(room_players, c) = NoSeat
    /\ seat # NoSeat
    /\ room_players' = [room_players EXCEPT ![seat] = c]
    /\ joined_seat' = [joined_seat EXCEPT ![c] = seat]
    /\ UNCHANGED << room_status, room_ai, conn_to_seat, last_left >>
    /\ UNCHANGED << srvVars, lockVars, engVars, fanVars, rakeVars, adapterVars, frameVars, localVars, showVars, buyVars, listVars >>

\* process_message, ClientMessage::LeaveTable: the seat of
\* TableRoom::remove_player goes out in PlayerLeftTable and, when a game
\* is active, in GameEvent::PlayerLeft
RoomLeave(c) ==
    LET seat == room_seat_of(room_players, c)
        pl == [room_players EXCEPT ![seat] = NoConn]
    IN
    /\ seat # NoSeat
    /\ room_players' = pl
    /\ room_ai' = IF (\A s \in RoomSeats : pl[s] = NoConn) /\ room_status = "Waiting"
                  THEN {} ELSE room_ai
    /\ joined_seat' = [joined_seat EXCEPT ![c] = NoSeat]
    /\ conn_to_seat' = [conn_to_seat EXCEPT ![c] = NoSeat]
    /\ last_left' = IF room_status = "InProgress"
                    THEN [lobby |-> seat, game |-> conn_to_seat[c]]
                    ELSE last_left
    /\ UNCHANGED room_status
    /\ UNCHANGED << srvVars, lockVars, engVars, fanVars, rakeVars, adapterVars, frameVars, localVars, showVars, buyVars, listVars >>

\* process_message, ClientMessage::AddAI, sent by a seated connection
RoomAddAI ==
    LET seat == room_empty_seat(room_players, room_ai) IN
    /\ room_status = "Waiting"
    /\ \E s \in RoomSeats : room_players[s] # NoConn
    /\ seat # NoSeat
    /\ room_ai' = room_ai \cup {seat}
    /\ UNCHANGED << room_status, room_players, joined_seat, conn_to_seat, last_left >>
    /\ UNCHANGED << srvVars, lockVars, engVars, fanVars, rakeVars, adapterVars, frameVars, localVars, showVars, buyVars, listVars >>

\* process_message, ClientMessage::RemoveAI{seat}
RoomRemoveAI(seat) ==
    /\ room_status = "Waiting"
    /\ \E s \in RoomSeats : room_players[s] # NoConn
    /\ seat \in room_ai
    /\ room_ai' = room_ai \ {seat}
    /\ UNCHANGED << room_status, room_players, joined_seat, conn_to_seat, last_left >>
    /\ UNCHANGED << srvVars, lockVars, engVars, fanVars, rakeVars, adapterVars, frameVars, localVars, showVars, buyVars, listVars >>

\* process_message, the Ready that completes all_ready, and start_game:
\* register_player(conn_id, game_seat) for every human
RoomStart ==
    /\ room_status = "Waiting"
    /\ \E s \in RoomSeats : room_players[s] # NoConn
    /\ Cardinality({s \in RoomSeats : room_players[s] # NoConn \/ s \in room_ai})
          >= min_players
    /\ room_status' = "InProgress"
    /\ conn_to_seat' = [c \in RoomConns |->
                          IF room_seat_of(room_players, c) = NoSeat THEN NoSeat
                          ELSE game_seat(room_players, room_ai,
                                         room_seat_of(room_players, c))]
    /\ UNCHANGED << room_players, room_ai, joined_seat, last_left >>
    /\ UNCHANGED << srvVars, lockVars, engVars, fanVars, rakeVars, adapterVars, frameVars, localVars, showVars, buyVars, listVars >>

NextRoom ==
    \/ \E c \in RoomConns : RoomJoin(c)
    \/ \E c \in RoomConns : RoomLeave(c)
    \/ RoomAddAI
    \/ \E seat \in RoomSeats : RoomRemoveAI(seat)
    \/ RoomStart

\* ------------------------------------------------------------------------
\* The table list (src/src/net/server.rs): build_table_list and the handlers
\* that send it.  Every action is one stretch of a handler under its locks.
\* The connections here join from the lobby only and carry different names.
\* ------------------------------------------------------------------------
NumListConns == 3
NumListRooms == 1
list_max_players == 2
MaxSnapshots == 5

ListConns == 1..NumListConns
ListRooms == 1..NumListRooms

NoTableList == [tables |-> <<>>, taken |-> 0]
EmptyRoom == [status |-> "Waiting", players |-> {}, finished |-> FALSE]

\* TableRoom::to_info: the fields of TableInfo that change
to_info(room) == [players |-> Cardinality(room.players), status |-> room.status]

\* build_table_list, the n-th list built
build_table_list(rooms, n) ==
    [tables |-> [t \in ListRooms |-> to_info(rooms[t])], taken |-> n]

\* cleanup_finished_games
cleanup_finished_games(rooms) ==
    [t \in ListRooms |->
        IF rooms[t].status = "InProgress" /\ rooms[t].finished THEN EmptyRoom
        ELSE rooms[t]]

\* broadcast_lobby_state: the streams after it
broadcast_lobby_state(list, current, streams) ==
    [c \in ListConns |-> IF current[c] = NoTable THEN list ELSE streams[c]]

ListInit ==
    /\ lobby_rooms = [t \in ListRooms |-> EmptyRoom]
    /\ lobby_table = [c \in ListConns |-> NoTable]
    /\ listPc = [c \in ListConns |-> "idle"]
    /\ any_cleaned = [c \in ListConns |-> FALSE]
    /\ table_list = [c \in ListConns |-> NoTableList]
    /\ lobby_state = [c \in ListConns |-> NoTableList]
    /\ snapshots = 0

\* process_message, ClientMessage::ListTables: cleanup under the tables lock
ListCleanup(c) ==
    /\ listPc[c] = "idle"
    /\ lobby_rooms' = cleanup_finished_games(lobby_rooms)
    /\ any_cleaned' = [any_cleaned EXCEPT ![c] = lobby_rooms' # lobby_rooms]
    /\ listPc' = [listPc EXCEPT ![c] = "cleaned"]
    /\ UNCHANGED << lobby_table, table_list, lobby_state, snapshots >>
    /\ UNCHANGED << srvVars, lockVars, engVars, fanVars, rakeVars, adapterVars, frameVars, localVars, showVars, buyVars, roomVars >>

\* ClientMessage::ListTables: the tables lock again, build_table_list, drop
ListBuild(c) ==
    /\ listPc[c] = "cleaned"
    /\ snapshots < MaxSnapshots
    /\ snapshots' = snapshots + 1
    /\ table_list' = [table_list EXCEPT ![c] = build_table_list(lobby_rooms, snapshots')]
    /\ listPc' = [listPc EXCEPT ![c] = "built"]
    /\ UNCHANGED << lobby_rooms, lobby_table, any_cleaned, lobby_state >>
    /\ UNCHANGED << srvVars, lockVars, engVars, fanVars, rakeVars, adapterVars, frameVars, localVars, showVars, buyVars, roomVars >>

\* ClientMessage::ListTables: the connections lock, and the list is sent
ListSend(c) ==
    /\ listPc[c] = "built"
    /\ lobby_state' = IF any_cleaned[c]
                      THEN broadcast_lobby_state(table_list[c], lobby_table, lobby_state)
                      ELSE [lobby_state EXCEPT ![c] = table_list[c]]
    /\ listPc' = [listPc EXCEPT ![c] = "idle"]
    /\ any_cleaned' = [any_cleaned EXCEPT ![c] = FALSE]
    /\ table_list' = [table_list EXCEPT ![c] = NoTableList]
    /\ UNCHANGED << lobby_rooms, lobby_table, snapshots >>
    /\ UNCHANGED << srvVars, lockVars, engVars, fanVars, rakeVars, adapterVars, frameVars, localVars, showVars, buyVars, roomVars >>

\* ClientMessage::JoinTable, both locks held from start to end
ListJoinTable(c, t) ==
    LET cleaned_up == lobby_rooms[t].status = "InProgress" /\ lobby_rooms[t].finished
        rooms1 == IF cleaned_up THEN [lobby_rooms EXCEPT ![t] = EmptyRoom]
                  ELSE lobby_rooms
        n1 == IF cleaned_up THEN snapshots + 1 ELSE snapshots
        streams1 == IF cleaned_up
                    THEN broadcast_lobby_state(build_table_list(rooms1, n1),
                                               lobby_table, lobby_state)
                    ELSE lobby_state
        seated == /\ rooms1[t].status = "Waiting"
                  /\ Cardinality(rooms1[t].players) < list_max_players
        rooms2 == IF seated
                  THEN [rooms1 EXCEPT ![t].players = rooms1[t].players \cup {c}]
                  ELSE rooms1
        current2 == IF seated THEN [lobby_table EXCEPT ![c] = t] ELSE lobby_table
        n2 == IF seated THEN n1 + 1 ELSE n1 IN
    /\ listPc[c] = "idle"
    /\ lobby_table[c] = NoTable
    /\ snapshots + 2 <= MaxSnapshots
    /\ lobby_rooms' = rooms2
    /\ lobby_table' = current2
    /\ snapshots' = n2
    /\ lobby_state' = IF seated
                      THEN broadcast_lobby_state(build_table_list(rooms2, n2),
                                                 current2, streams1)
                      ELSE streams1
    /\ UNCHANGED << listPc, any_cleaned, table_list >>
    /\ UNCHANGED << srvVars, lockVars, engVars, fanVars, rakeVars, adapterVars, frameVars, localVars, showVars, buyVars, roomVars >>

\* ClientMessage::LeaveTable, both locks held: the list goes out before
\* current_table is reset
ListLeaveTable(c) ==
    LET t == lobby_table[c]
        removed == c \in lobby_rooms[t].players
        rooms1 == IF removed
                  THEN [lobby_rooms EXCEPT ![t].players = lobby_rooms[t].players \ {c}]
                  ELSE lobby_rooms IN
    /\ listPc[c] = "idle"
    /\ lobby_table[c] # NoTable
    /\ snapshots < MaxSnapshots
    /\ lobby_rooms' = rooms1
    /\ snapshots' = IF removed THEN snapshots + 1 ELSE snapshots
    /\ lobby_state' = IF removed
                      THEN broadcast_lobby_state(build_table_list(rooms1, snapshots'),
                                                 lobby_table, lobby_state)
                      ELSE lobby_state
    /\ lobby_table' = [lobby_table EXCEPT ![c] = NoTable]
    /\ UNCHANGED << listPc, any_cleaned, table_list >>
    /\ UNCHANGED << srvVars, lockVars, engVars, fanVars, rakeVars, adapterVars, frameVars, localVars, showVars, buyVars, roomVars >>

\* ClientMessage::Ready of the last player of a Waiting table: the game starts
ListReady(c) ==
    LET t == lobby_table[c] IN
    /\ listPc[c] = "idle"
    /\ lobby_table[c] # NoTable
    /\ c \in lobby_rooms[t].players
    /\ lobby_rooms[t].status = "Waiting"
    /\ Cardinality(lobby_rooms[t].players) >= min_players
    /\ snapshots < MaxSnapshots
    /\ lobby_rooms' = [lobby_rooms EXCEPT ![t].status = "InProgress"]
    /\ snapshots' = snapshots + 1
    /\ lobby_state' = broadcast_lobby_state(build_table_list(lobby_rooms', snapshots'),
                                            lobby_table, lobby_state)
    /\ UNCHANGED << lobby_table, listPc, any_cleaned, table_list >>
    /\ UNCHANGED << srvVars, lockVars, engVars, fanVars, rakeVars, adapterVars, frameVars, localVars, showVars, buyVars, roomVars >>

\* start_game, the fan-out thread: game_finished.store(true)
ListGameFinished(t) ==
    /\ lobby_rooms[t].status = "InProgress"
    /\ ~lobby_rooms[t].finished
    /\ lobby_rooms' = [lobby_rooms EXCEPT ![t].finished = TRUE]
    /\ UNCHANGED << lobby_table, listPc, any_cleaned, table_list, lobby_state, snapshots >>
    /\ UNCHANGED << srvVars, lockVars, engVars, fanVars, rakeVars, adapterVars, frameVars, localVars, showVars, buyVars, roomVars >>

NextList ==
    \/ \E c \in ListConns : ListCleanup(c)
    \/ \E c \in ListConns : ListBuild(c)
    \/ \E c \in ListConns : ListSend(c)
    \/ \E c \in ListConns, t \in ListRooms : ListJoinTable(c, t)
    \/ \E c \in ListConns : ListLeaveTable(c)
    \/ \E c \in ListConns : ListReady(c)
    \/ \E t \in ListRooms : ListGameFinished(t)

Init ==
    /\ ListInit
    /\ FanInit
    /\ RoomInit
    /\ BuyInit
    /\ ShowInit
    /\ FrameInit
    /\ LocalInit
    /\ decision = NoDecision
    /\ rake_collected = 0
    /\ connPc = [c \in Conns |-> "new"]
    /\ username = [c \in Conns |-> NoName]
    /\ current_table = [c \in Conns |-> NoTable]
    /\ discTable = [c \in Conns |-> NoTable]
    /\ status = [t \in TableIds |-> "Waiting"]
    /\ players = [t \in TableIds |-> EmptySeats]
    /\ ai_players = [t \in TableIds |-> EmptyAI]
    /\ ready = [t \in TableIds |-> EmptyReady]
    /\ active_game = [t \in TableIds |-> NoGame]
    /\ games = [g \in GameIds |-> NoGameRec]
    /\ bank = [id \in BankIds |-> NoProfile]
    /\ lastBuyIn = "none"
    /\ errors = 0
    /\ LockInit
    /\ EngineInit

\* handle_connection: the connection is inserted into the connections map
Accept(c) ==
    /\ connPc[c] = "new"
    /\ connPc' = [connPc EXCEPT ![c] = "open"]
    /\ lastBuyIn' = "none"
    /\ errors' = 0
    /\ UNCHANGED << username, current_table, discTable, status, players,
                    ai_players, ready, active_game, games, bank >>
    /\ UNCHANGED << lockVars, engVars, fanVars, rakeVars, adapterVars, frameVars, localVars, showVars, buyVars, roomVars, listVars >>

\* Login: the length test on the username
username_ok(u) == Len(u) <= MAX_USERNAME_LENGTH /\ u # ""

\* Login, had the handler stored the name before testing it
login_username_Unchecked(c, u) == [username EXCEPT ![c] = u]

\* Login: the usernames after the handler
login_username(c, u) ==
    IF username_ok(u) THEN [username EXCEPT ![c] = u] ELSE username

\* process_message, ClientMessage::Login: a name that is empty or too long
\* is answered with an Error, any other with Welcome
Login(c, u) ==
    /\ connPc[c] = "open"
    /\ username' = login_username(c, u)
    /\ lastBuyIn' = "none"
    /\ errors' = IF username_ok(u) THEN 0 ELSE 1
    /\ UNCHANGED << connPc, current_table, discTable, status, players,
                    ai_players, ready, active_game, games, bank >>
    /\ UNCHANGED << lockVars, engVars, fanVars, rakeVars, adapterVars, frameVars, localVars, showVars, buyVars, roomVars, listVars >>

\* The test cleanup_finished_games and JoinTable make before a reset
Cleanable(t) ==
    /\ status[t] = "InProgress"
    /\ active_game[t] # NoGame
    /\ is_finished(active_game[t])

\* cleanup_finished_games, and the same lines of the JoinTable handler:
\* the tables after the tables of T have been reset
CleanStatus(T) == [t \in TableIds |-> IF t \in T THEN "Waiting" ELSE status[t]]
CleanPlayers(T) == [t \in TableIds |-> IF t \in T THEN EmptySeats ELSE players[t]]
CleanAI(T) == [t \in TableIds |-> IF t \in T THEN EmptyAI ELSE ai_players[t]]
CleanReady(T) == [t \in TableIds |-> IF t \in T THEN EmptyReady ELSE ready[t]]
CleanActive(T) == [t \in TableIds |-> IF t \in T THEN NoGame ELSE active_game[t]]

\* process_message, ClientMessage::ListTables
ListTables(c) ==
    LET T == {t \in TableIds : Cleanable(t)} IN
    /\ connPc[c] = "open"
    /\ status' = CleanStatus(T)
    /\ players' = CleanPlayers(T)
    /\ ai_players' = CleanAI(T)
    /\ ready' = CleanReady(T)
    /\ active_game' = CleanActive(T)
    /\ UNCHANGED games
    /\ lastBuyIn' = "none"
    /\ errors' = 0
    /\ UNCHANGED << connPc, username, current_table, discTable, bank >>
    /\ UNCHANGED << lockVars, engVars, fanVars, rakeVars, adapterVars, frameVars, localVars, showVars, buyVars, roomVars, listVars >>

\* Table ids a client may send that name no table: one of legal length and
\* one longer than MAX_TABLE_ID_LENGTH
UnknownTable == NumTables + 1
LongTable == NumTables + 2
table_id_len(t) == IF t = LongTable THEN MAX_TABLE_ID_LENGTH + 1 ELSE 1

\* process_message, ClientMessage::JoinTable with an id that is too long
\* or not in the tables map: an Error and nothing else
JoinNoTable(c, t) ==
    /\ connPc[c] = "open"
    /\ table_id_len(t) > MAX_TABLE_ID_LENGTH \/ t \notin TableIds
    /\ lastBuyIn' = "none"
    /\ errors' = 1
    /\ UNCHANGED << connPc, username, current_table, discTable, status, players,
                    ai_players, ready, active_game, games, bank >>
    /\ UNCHANGED << lockVars, engVars, fanVars, rakeVars, adapterVars, frameVars, localVars, showVars, buyVars, roomVars, listVars >>

\* process_message, ClientMessage::JoinTable
JoinTable(c, t) ==
    LET T == IF Cleanable(t) THEN {t} ELSE {}
        st == CleanStatus(T)
        pl == CleanPlayers(T)
        ai == CleanAI(T)
        rd == CleanReady(T)
        seat == find_empty_seat(pl[t], ai[t])
        seated == /\ st[t] = "Waiting"
                  /\ ~has_username(pl[t], ai[t], NameOr(c, "Anonymous"))
                  /\ seat # NoSeat
    IN
    /\ connPc[c] = "open"
    /\ status' = st
    /\ ai_players' = ai
    /\ active_game' = CleanActive(T)
    /\ UNCHANGED games
    /\ players' = IF seated THEN [pl EXCEPT ![t][seat] = c] ELSE pl
    /\ ready' = IF seated THEN [rd EXCEPT ![t][seat] = "no"] ELSE rd
    /\ current_table' = IF seated THEN [current_table EXCEPT ![c] = t]
                        ELSE current_table
    /\ lastBuyIn' = "none"
    /\ errors' = IF seated THEN 0 ELSE 1
    /\ UNCHANGED << connPc, username, discTable, bank >>
    /\ UNCHANGED << lockVars, engVars, fanVars, rakeVars, adapterVars, frameVars, localVars, showVars, buyVars, roomVars, listVars >>

\* TableRoom::remove_player picks the seat `find` yields for the connection
ConnSeats(pl, c) == {s \in Seats : pl[s] = c}

\* The part the LeaveTable handler and the disconnect cleanup share: the
\* seat s of connection c at table t is vacated, a Waiting table without
\* humans is reset, and the active game drops the connection.
VacateSeat(c, t, s) ==
    LET pl == [players[t] EXCEPT ![s] = NoConn]
        rd == [ready[t] EXCEPT ![s] = "none"]
        reset == HumanSeats(pl) = {} /\ status[t] = "Waiting"
        g == active_game[t]
        gr == game_remove_player(games[g], c)
    IN
    /\ players' = [players EXCEPT ![t] = pl]
    /\ ready' = [ready EXCEPT ![t] = IF reset THEN EmptyReady ELSE rd]
    /\ ai_players' = IF reset THEN [ai_players EXCEPT ![t] = EmptyAI]
                     ELSE ai_players
    /\ games' = IF g = NoGame THEN games
                ELSE [games EXCEPT ![g] = IF has_humans(gr) THEN gr
                                          ELSE signal_quit(gr)]

\* process_message, ClientMessage::LeaveTable
LeaveTable(c) ==
    LET t == current_table[c] IN
    /\ connPc[c] = "open"
    /\ t # NoTable
    /\ IF ConnSeats(players[t], c) # {}
       THEN \E s \in ConnSeats(players[t], c) : VacateSeat(c, t, s)
       ELSE UNCHANGED << players, ready, ai_players, games >>
    /\ current_table' = [current_table EXCEPT ![c] = NoTable]
    /\ lastBuyIn' = "none"
    /\ errors' = 0
    /\ UNCHANGED << connPc, username, discTable, status, active_game, bank >>
    /\ UNCHANGED << lockVars, engVars, fanVars, rakeVars, adapterVars, frameVars, localVars, showVars, buyVars, roomVars, listVars >>

\* The bank ids the Ready handler collects: the humans still in the
\* connections map in the order `ho` of their seats, then the AI seats in
\* the order `ao` (humans use the lowercased username, AI the roster id)
RECURSIVE HumanIds(_, _)
HumanIds(pl, ho) ==
    IF ho = << >> THEN << >>
    ELSE (IF connPc[pl[Head(ho)]] = "open"
          THEN << ToLower(NameOr(pl[Head(ho)], "Unknown")) >> ELSE << >>)
         \o HumanIds(pl, Tail(ho))

RECURSIVE AIIds(_, _)
AIIds(ai, ao) ==
    IF ao = << >> THEN << >>
    ELSE << ai_roster[ai[Head(ao)]].id >> \o AIIds(ai, Tail(ao))

\* GameStartInfo.player_bank_ids: the bank ids in seat order
RECURSIVE BankIdsBySeat(_, _, _)
BankIdsBySeat(pl, ai, ss) ==
    IF ss = << >> THEN << >>
    ELSE LET s == Head(ss) IN
         (IF pl[s] # NoConn
          THEN (IF connPc[pl[s]] = "open"
                THEN << ToLower(NameOr(pl[s], "Unknown")) >> ELSE << >>)
          ELSE << ai_roster[ai[s]].id >>)
         \o BankIdsBySeat(pl, ai, Tail(ss))

\* start_game: the seats of all_players sorted by lobby seat; the game
\* seat of a player is its index in that order
GameOrder(pl, ai) ==
    SortSeats({s \in Seats : \/ (pl[s] # NoConn /\ connPc[pl[s]] = "open")
                             \/ (pl[s] = NoConn /\ ai[s] # NoAI)})

\* start_game: register_player for each human, in game-seat order (a later
\* insert for the same connection replaces the earlier one)
RECURSIVE Register(_, _, _, _)
Register(pl, order, idx, m) ==
    IF idx > Len(order) THEN m
    ELSE Register(pl, order, idx + 1,
                  IF pl[order[idx]] # NoConn
                  THEN [m EXCEPT ![pl[order[idx]]] = idx - 1] ELSE m)

\* start_game: the ActiveGame handle of a new game
start_game(pl, ai) ==
    LET order == GameOrder(pl, ai) IN
    [phase |-> "running",
     conn_to_seat |-> Register(pl, order, 1, [c \in Conns |-> NoSeat]),
     action_senders |-> {i - 1 : i \in {j \in 1..Len(order) : pl[order[j]] # NoConn}},
     sitting_out |-> {},
     quit_signal |-> FALSE,
     player_bank_ids |-> BankIdsBySeat(pl, ai, SortSeats(HumanSeats(pl) \cup AISeats(ai)))]

\* The ready map after a failed buy-in: every flag false, AI seats true
ResetReady(rd, ai) ==
    [s \in Seats |-> IF ai[s] # NoAI THEN "yes"
                     ELSE IF rd[s] = "none" THEN "none" ELSE "no"]

\* process_message, ClientMessage::Ready
Ready(c) ==
    LET t == current_table[c] IN
    /\ connPc[c] = "open"
    /\ t # NoTable
    /\ IF ConnSeats(players[t], c) = {}
       THEN /\ lastBuyIn' = "none"
            /\ errors' = 0
            /\ UNCHANGED << status, ready, active_game, games, bank >>
       ELSE \E s \in ConnSeats(players[t], c) :
            LET rd == [ready[t] EXCEPT ![s] = "yes"] IN
            IF ~all_ready(players[t], ai_players[t], rd)
            THEN /\ ready' = [ready EXCEPT ![t] = rd]
                 /\ lastBuyIn' = "none"
                 /\ errors' = 0
                 /\ UNCHANGED << status, active_game, games, bank >>
            ELSE \E ho \in Orders(HumanSeats(players[t])),
                    ao \in Orders(AISeats(ai_players[t])) :
                 LET ids == HumanIds(players[t], ho) \o AIIds(ai_players[t], ao)
                     res == buyin_all(bank, ids)
                 IN
                 /\ bank' = res.bank
                 /\ IF ~res.ok
                    THEN /\ status' = [status EXCEPT ![t] = "Waiting"]
                         /\ ready' = [ready EXCEPT ![t] = ResetReady(rd, ai_players[t])]
                         /\ lastBuyIn' = "failed"
                         /\ errors' = 1
                         /\ UNCHANGED << active_game, games >>
                    ELSE \E g \in FreeGames :
                         /\ g = CHOOSE x \in FreeGames : \A y \in FreeGames : x <= y
                         /\ status' = [status EXCEPT ![t] = "InProgress"]
                         /\ ready' = [ready EXCEPT ![t] = rd]
                         /\ active_game' = [active_game EXCEPT ![t] = g]
                         /\ games' = [games EXCEPT ![g] = start_game(players[t], ai_players[t])]
                         /\ lastBuyIn' = "ok"
                         /\ errors' = 0
    /\ UNCHANGED << connPc, username, current_table, discTable, players, ai_players >>
    /\ UNCHANGED << lockVars, engVars, fanVars, rakeVars, adapterVars, frameVars, localVars, showVars, buyVars, roomVars, listVars >>

\* process_message, ClientMessage::AddAI: any roster entry whose id is not
\* in use at the table may be selected (shuffle and join_probability)
AddAI(c) ==
    LET t == current_table[c]
        seat == find_empty_seat(players[t], ai_players[t])
        used_ids == {ToLower(ai_roster[ai_players[t][s]].id) : s \in AISeats(ai_players[t])}
                    \cup {ToLower(ConnName(players[t][s])) :
                            s \in {x \in HumanSeats(players[t]) :
                                     ConnName(players[t][x]) # NoName}}
        available == {i \in RosterIdx : ToLower(ai_roster[i].id) \notin used_ids}
    IN
    /\ connPc[c] = "open"
    /\ t # NoTable
    /\ IF status[t] = "Waiting" /\ seat # NoSeat /\ available # {}
       THEN \E i \in available :
            /\ bank' = ensure_exists(bank, ai_roster[i].id)
            /\ ai_players' = [ai_players EXCEPT ![t][seat] = i]
            /\ ready' = [ready EXCEPT ![t][seat] = "yes"]
       ELSE UNCHANGED << bank, ai_players, ready >>
    /\ lastBuyIn' = "none"
    /\ errors' = IF status[t] = "Waiting" /\ seat # NoSeat /\ available # {}
                 THEN 0 ELSE 1
    /\ UNCHANGED << connPc, username, current_table, discTable, status, players,
                    active_game, games >>
    /\ UNCHANGED << lockVars, engVars, fanVars, rakeVars, adapterVars, frameVars, localVars, showVars, buyVars, roomVars, listVars >>

\* process_message, ClientMessage::RemoveAI
RemoveAI(c, seat) ==
    LET t == current_table[c] IN
    /\ connPc[c] = "open"
    /\ t # NoTable
    /\ IF status[t] = "Waiting" /\ ai_players[t][seat] # NoAI
       THEN /\ ai_players' = [ai_players EXCEPT ![t][seat] = NoAI]
            /\ ready' = [ready EXCEPT ![t][seat] = "none"]
       ELSE UNCHANGED << ai_players, ready >>
    /\ lastBuyIn' = "none"
    /\ errors' = IF status[t] = "Waiting" /\ ai_players[t][seat] # NoAI
                 THEN 0 ELSE 1
    /\ UNCHANGED << connPc, username, current_table, discTable, status, players,
                    active_game, games, bank >>
    /\ UNCHANGED << lockVars, engVars, fanVars, rakeVars, adapterVars, frameVars, localVars, showVars, buyVars, roomVars, listVars >>

\* handle_connection, disconnect cleanup, first critical section: the
\* Connection is removed from the connections map (and dropped) and its
\* table id is captured
Disconnect(c) ==
    /\ connPc[c] = "open"
    /\ discTable' = [discTable EXCEPT ![c] = current_table[c]]
    /\ connPc' = [connPc EXCEPT ![c] =
                     IF current_table[c] = NoTable THEN "closed" ELSE "cleanup"]
    /\ username' = [username EXCEPT ![c] = NoName]
    /\ current_table' = [current_table EXCEPT ![c] = NoTable]
    /\ lastBuyIn' = "none"
    /\ errors' = 0
    /\ UNCHANGED << status, players, ai_players, ready, active_game, games, bank >>
    /\ UNCHANGED << lockVars, engVars, fanVars, rakeVars, adapterVars, frameVars, localVars, showVars, buyVars, roomVars, listVars >>

\* handle_connection, disconnect cleanup, second critical section (tables)
DisconnectCleanup(c) ==
    LET t == discTable[c]
        seats == ConnSeats(players[t], c)
    IN
    /\ connPc[c] = "cleanup"
    /\ connPc' = [connPc EXCEPT ![c] = "closed"]
    /\ \E s \in (IF seats = {} THEN {NoSeat} ELSE seats) :
        LET pl == IF s = NoSeat THEN players[t] ELSE [players[t] EXCEPT ![s] = NoConn]
            rd == IF s = NoSeat THEN ready[t] ELSE [ready[t] EXCEPT ![s] = "none"]
            reset == HumanSeats(pl) = {} /\ status[t] = "Waiting"
            g == active_game[t]
            gr == game_remove_player(games[g], c)
        IN
        /\ players' = [players EXCEPT ![t] = pl]
        /\ ready' = [ready EXCEPT ![t] = IF reset THEN EmptyReady ELSE rd]
        /\ ai_players' = IF reset THEN [ai_players EXCEPT ![t] = EmptyAI]
                         ELSE ai_players
        /\ games' = IF g = NoGame THEN games
                    ELSE [games EXCEPT ![g] = IF has_humans(gr) THEN gr
                                              ELSE signal_quit(gr)]
    /\ discTable' = [discTable EXCEPT ![c] = NoTable]
    /\ lastBuyIn' = "none"
    /\ errors' = 0
    /\ UNCHANGED << username, current_table, status, active_game, bank >>
    /\ UNCHANGED << lockVars, engVars, fanVars, rakeVars, adapterVars, frameVars, localVars, showVars, buyVars, roomVars, listVars >>

\* ------------------------------------------------------------------------
\* The threads of a game, as the lobby sees them
\* ------------------------------------------------------------------------
\* GameRunner::run leaves its hand loop and emits GameEnded
EngineEnds(g) ==
    /\ games[g].phase = "running"
    /\ games' = [games EXCEPT ![g].phase = "ended"]
    /\ lastBuyIn' = "none"
    /\ errors' = 0
    /\ UNCHANGED << connPc, username, current_table, discTable, status, players,
                    ai_players, ready, active_game, bank >>
    /\ UNCHANGED << lockVars, engVars, fanVars, rakeVars, adapterVars, frameVars, localVars, showVars, buyVars, roomVars, listVars >>

\* The final stacks GameEnded may carry for n seats: none when the runner
\* had fewer than two players, else any split of the chips in play
FinalStacks(n) ==
    IF n < 2 THEN { << >> }
    ELSE {f \in [1..n -> 0..(n * BuyIn)] :
            LET RECURSIVE Sum(_)
                Sum(i) == IF i = 0 THEN 0 ELSE f[i] + Sum(i - 1)
            IN Sum(n) = n * BuyIn}

\* start_game, fan-out thread on GameEnded (Cash): bank.cashout for every
\* standing, to the bank id at the index of its seat
RECURSIVE cashout_all(_, _, _, _)
cashout_all(b, ids, final, i) ==
    IF i > Len(final) THEN b
    ELSE cashout_all(IF i <= Len(ids) THEN cashout(b, ids[i], final[i]) ELSE b,
                     ids, final, i + 1)

FanoutCashout(g) ==
    /\ games[g].phase = "ended"
    /\ \E f \in FinalStacks(Len(games[g].player_bank_ids)) :
          bank' = cashout_all(bank, games[g].player_bank_ids, f, 1)
    /\ games' = [games EXCEPT ![g].phase = "paid"]
    /\ lastBuyIn' = "none"
    /\ errors' = 0
    /\ UNCHANGED << connPc, username, current_table, discTable, status, players,
                    ai_players, ready, active_game >>
    /\ UNCHANGED << lockVars, engVars, fanVars, rakeVars, adapterVars, frameVars, localVars, showVars, buyVars, roomVars, listVars >>

\* start_game, fan-out thread: game_finished.store(true)
FanoutFinished(g) ==
    /\ games[g].phase = "paid"
    /\ games' = [games EXCEPT ![g].phase = "finished"]
    /\ lastBuyIn' = "none"
    /\ errors' = 0
    /\ UNCHANGED << connPc, username, current_table, discTable, status, players,
                    ai_players, ready, active_game, bank >>
    /\ UNCHANGED << lockVars, engVars, fanVars, rakeVars, adapterVars, frameVars, localVars, showVars, buyVars, roomVars, listVars >>

Next ==
    \/ \E c \in Conns : Accept(c)
    \/ \E c \in Conns, u \in Usernames \cup {"", LongName} : Login(c, u)
    \/ \E c \in Conns : ListTables(c)
    \/ \E c \in Conns, t \in TableIds : JoinTable(c, t)
    \/ \E c \in Conns, t \in {UnknownTable, LongTable} : JoinNoTable(c, t)
    \/ \E c \in Conns : LeaveTable(c)
    \/ \E c \in Conns : Ready(c)
    \/ \E c \in Conns : AddAI(c)
    \/ \E c \in Conns, s \in Seats : RemoveAI(c, s)
    \/ \E c \in Conns : Disconnect(c)
    \/ \E c \in Conns : DisconnectCleanup(c)
    \/ \E g \in GameIds : EngineEnds(g)
    \/ \E g \in GameIds : FanoutCashout(g)
    \/ \E g \in GameIds : FanoutFinished(g)

vars == << srvVars, lockVars, engVars, fanVars, rakeVars, adapterVars, frameVars, localVars, showVars, buyVars, roomVars, listVars >>

Spec == Init /\ [][Next]_vars

SpecLocks == Init /\ [][NextLocks]_vars

SpecEngine == Init /\ [][NextEngine]_vars

SpecFanout == Init /\ [][NextFanout]_vars

SpecRake == Init /\ [][NextRake]_vars

SpecAdapter == Init /\ [][NextAdapter]_vars

SpecFrame == Init /\ [][NextFrame]_vars

SpecLocal == Init /\ [][NextLocal]_vars

SpecShow == Init /\ [][NextShow]_vars

SpecBuyIn == Init /\ [][NextBuyIn]_vars

SpecRoom == Init /\ [][NextRoom]_vars
SpecList == Init /\ [][NextList]_vars

\* ------------------------------------------------------------------------
\* Properties of the lobby
\* ------------------------------------------------------------------------
\* The (table, seat) pairs a connection id occupies
SeatsOf(c) == {ts \in TableIds \X Seats : players[ts[1]][ts[2]] = c}

\* C2: after any sequence of lobby messages and disconnects, each
\* connection id occupies at most one seat over all tables.
C2_OneSeatPerConnection == \A c \in Conns : Cardinality(SeatsOf(c)) <= 1

\* The bank id of the player on seat s of table t
SeatBankId(t, s) ==
    IF players[t][s] # NoConn THEN ToLower(NameOr(players[t][s], "Unknown"))
    ELSE ai_roster[ai_players[t][s]].id

\* No two seats of a table share a bank id, no connection holds two seats
\* and no table has a game: a lobby the other lobby claims describe
CleanLobby ==
    /\ C2_OneSeatPerConnection
    /\ \A t \in TableIds : status[t] = "Waiting" /\ active_game[t] = NoGame
    /\ \A t \in TableIds :
          \A s1, s2 \in HumanSeats(players[t]) \cup AISeats(ai_players[t]) :
              s1 # s2 => SeatBankId(t, s1) # SeatBankId(t, s2)

\* C3: a Ready whose buy-in fails leaves every player's bankroll at the
\* value it had before the Ready was processed.  The claim is stated for
\* a Ready that arrives in a clean lobby, so that a violation owes nothing
\* to a seat held twice, a shared bank id or a game already running.
C3_BuyInAtomic ==
    [][(lastBuyIn' = "failed" /\ CleanLobby)
       => \A id \in BankIds : get_bankroll(bank', id) = get_bankroll(bank, id)]_vars

\* C7: whenever no handler holds the tables lock (every state of this
\* specification, whose handlers are atomic), a Waiting table has no
\* ActiveGame and an InProgress table has one.
C7_StatusMatchesGame ==
    \A t \in TableIds :
        /\ status[t] = "Waiting" => active_game[t] = NoGame
        /\ status[t] = "InProgress" => active_game[t] # NoGame

\* C8: a table becomes InProgress only in a Ready handler, with at least
\* min_players seats taken and every occupied seat ready; an AI seat is
\* ready from the moment it is added.
C8_StartOnlyWhenAllReady ==
    [][/\ \A t \in TableIds :
            (status[t] # "InProgress" /\ status'[t] = "InProgress") =>
                /\ \E c \in Conns : Ready(c)
                /\ player_count(players'[t], ai_players'[t]) >= min_players
                /\ \A s \in HumanSeats(players'[t]) \cup AISeats(ai_players'[t]) :
                      ready'[t][s] = "yes"
       /\ \A t \in TableIds : \A s \in AISeats(ai_players'[t]) : ready'[t][s] = "yes"
      ]_vars

\* C8 witness: a game has just been started at a table with a human and an AI
C8_Witness ==
    \E t \in TableIds :
        /\ status[t] = "InProgress"
        /\ lastBuyIn = "ok"
        /\ HumanSeats(players[t]) # {}
        /\ AISeats(ai_players[t]) # {}

\* ------------------------------------------------------------------------
\* Properties of the engine and of the threads of a game
\* ------------------------------------------------------------------------
\* C1: without rake, the stacks HandEnded and GameEnded report add up to
\* what the seats held before: num_players x starting_stack, also after a
\* hand during which a seat was added to sitting_out.
C1_ChipConservation ==
    (runnerPc # "idle" /\ end_reason # "Error") =>
        SumOver(stacks, Players) = NumPlayers * starting_stack

C6_RaiseCap ==
    \A i \in 1..4 : street_raises[i] <= max_raises_per_round

\* C9: an Action that was in the channel before the engine asked the seat
\* for a decision is never returned as the answer to that request.
C9_StrayActionDropped ==
    [][ReceiveAction => ~queued_at_request]_vars

\* C10: heads-up between two humans, after one of them has disconnected
\* during a hand, the engine emits at most one more ActionTaken for that
\* seat and ends the game with reason HostTerminated, and the human who
\* remains is sent PlayerLeft with reason Disconnected.
C10_HeadsUpDisconnect ==
    (NumPlayers = 2 /\ left_mid_hand # NoSeat /\ end_reason # "none") =>
        /\ acts_after_leave <= 1
        /\ end_reason = "HostTerminated"
        /\ in_game \subseteq left_notified

Projection(v) ==
    [i \in 1..(Len(emitted) - Len(event_q)) |->
        filter_event_for_seat(emitted[i], v)]

\* C12: the GameEvents written to the socket of a human seat that is not
\* sitting out are the events the engine emitted, in the order of emission,
\* each once, changed only by the hole-card projection.
C12_FanoutOrder ==
    \A v \in Players :
        (stream_conn[v] # NoConn /\ v \notin sitting_out) =>
            wire[stream_conn[v]] = Projection(v)

\* C13: two writes to one client socket, one by a handler through
\* Connection::send and one by the fan-out thread, are never in progress at
\* the same time.
C13_WritesSerialized ==
    \A a, b \in LockThreads : (a # b) => ~(InWrite(a) /\ InWrite(b))

\* C14: no thread writes to a client socket while it holds more than one of
\* the tables, connections and bank locks.
C14_WriteUnderOneLock ==
    \A th \in LockThreads :
        InWrite(th) => Cardinality({l \in Locks : Holds(th, l)}) <= 1

\* The names shown at table t: the username of each seated human that has
\* one, and the name of each AI
NameAt(t, s) ==
    IF ai_players[t][s] # NoAI THEN ToLower(ai_roster[ai_players[t][s]].name)
    ELSE ToLower(ConnName(players[t][s]))

NamedSeats(t) ==
    AISeats(ai_players[t])
    \cup {s \in HumanSeats(players[t]) : ConnName(players[t][s]) # NoName}

\* C15: the usernames of the seated humans and the names of the AI players
\* of one table are pairwise distinct, compared case-insensitively.
C15_DistinctNames ==
    \A t \in TableIds : \A s1, s2 \in NamedSeats(t) :
        (s1 # s2) => NameAt(t, s1) # NameAt(t, s2)

\* C16: with rake, after every hand the stacks of all seats plus the rake
\* collected so far make num_players x starting_stack (in hundredths).
C16_RakeConservation ==
    (runnerPc = "loop" /\ hand_num > 0) =>
        100 * SumOver(stacks, Players) + rake_collected
            = 100 * NumPlayers * starting_stack

\* ------------------------------------------------------------------------
\* Properties of PlayerAdapter::act
\* ------------------------------------------------------------------------
Decided == decision.response.kind # "none"

\* C17: the AgentAction of a decision is legal under its mask: a Bet is
\* handed on only when raise options are offered, its amount within
\* [min_raise, max_raise], and a Check is handed on only when can_check.
C17_ActionLegal ==
    Decided =>
        /\ decision.agent_action.kind = "Bet" =>
              /\ decision.valid.raise_options # NoRaiseOptions
              /\ decision.agent_action.amount >= decision.valid.raise_options.min_raise
              /\ decision.agent_action.amount <= decision.valid.raise_options.max_raise
        /\ (decision.response.kind = "Check" /\ decision.agent_action.kind = "Call") =>
              decision.valid.can_check

\* C18: an adapter with max_raises_per_round = 0 offers the raise options
\* and can_all_in of an adapter without a cap, whatever the number of
\* raises made on the street.
C18_ZeroCapDisabled ==
    (Decided /\ decision.max_raises_per_round = 0) =>
        /\ decision.valid.raise_options =
              compute_raise_options(decision.stack, decision.current_bet,
                                    decision.my_bet, decision.min_raise)
        /\ decision.valid.can_all_in = (decision.stack > 0)

\* C19: on Timeout, Admin, a timed-out or closed channel the AgentAction is
\* the check (a Call with nothing owed) when to_call = 0 and Fold
\* otherwise, so no chips are committed.
C19_TimeoutChecksOrFolds ==
    (Decided /\ decision.response.kind \in {"Timeout", "Admin", "PortTimeout", "Closed"}) =>
        decision.agent_action =
            IF decision.current_bet - decision.my_bet = 0
            THEN [kind |-> "Call", amount |-> 0]
            ELSE [kind |-> "Fold", amount |-> 0]

\* C19 witness: a port timed out with chips owed and the adapter folded
C19_Witness ==
    /\ Decided
    /\ decision.response.kind = "PortTimeout"
    /\ decision.current_bet - decision.my_bet > 0
    /\ decision.agent_action.kind = "Fold"

\* The tables, the connections and the bank
LobbyState == << connPc, username, current_table, discTable, status, players,
                ai_players, ready, active_game, games, bank >>

\* C20: a command that is rejected (JoinTable, AddAI, RemoveAI, Login; a
\* Ready whose buy-in fails is not among them) sends its sender exactly one
\* Error and leaves the tables, the connections and the bank as they were.
C20_RejectionChangesNothing ==
    [][(errors' >= 1 /\ lastBuyIn' # "failed") =>
          (errors' = 1 /\ UNCHANGED LobbyState)]_vars

\* C20 witness: a seated player's AddAI or RemoveAI, or a JoinTable, has
\* just been answered with an Error at a table holding a game
C20_Witness ==
    /\ errors = 1
    /\ lastBuyIn # "failed"
    /\ \E t \in TableIds : status[t] = "InProgress" /\ active_game[t] # NoGame

\* broadcast_to_table: the messages a broadcast to the players map pl writes
\* to connection c, one for every value of the map that is c and is still
\* in the connections map
broadcast_to_table(pl, c) ==
    IF connPc[c] = "open" THEN Cardinality(ConnSeats(pl, c)) ELSE 0

\* C21: when a buy-in fails at a Waiting table that is trying to start,
\* every human seated there (and still connected) is sent exactly one Error,
\* the table is Waiting afterwards, its seats are held as before, every human seat is not ready
\* and every AI seat is ready.
C21_BuyInFailure ==
    [][lastBuyIn' = "failed" =>
          \A t \in TableIds :
              (status[t] = "Waiting" /\ HumanSeats(players[t]) # {}) =>
                  /\ \A s \in HumanSeats(players[t]) :
                        connPc[players[t][s]] = "open" =>
                            broadcast_to_table(players[t], players[t][s]) = 1
                  /\ status'[t] = "Waiting"
                  /\ players'[t] = players[t]
                  /\ ai_players'[t] = ai_players[t]
                  /\ \A s \in HumanSeats(players[t]) : ready'[t][s] = "no"
                  /\ \A s \in AISeats(ai_players[t]) : ready'[t][s] = "yes"
      ]_vars

\* C22: whenever no handler holds the tables lock, a Waiting table at which
\* no human is seated has no AI seats and an empty ready map.
C22_EmptyTableReset ==
    \A t \in TableIds :
        (status[t] = "Waiting" /\ HumanSeats(players[t]) = {}) =>
            /\ AISeats(ai_players[t]) = {}
            /\ ready[t] = EmptyReady

\* C23: a table goes from InProgress to Waiting only in a step that finds
\* game_finished set on its ActiveGame, and that step empties the seat maps
\* and the ready map and drops the ActiveGame (the JoinTable handler then
\* seats the sender, not ready, at the emptied table).
C23_ResetOnlyByCleanup ==
    [][\A t \in TableIds :
          (status[t] = "InProgress" /\ status'[t] = "Waiting") =>
              /\ active_game[t] # NoGame
              /\ is_finished(active_game[t])
              /\ active_game'[t] = NoGame
              /\ ai_players'[t] = EmptyAI
              /\ Cardinality(HumanSeats(players'[t])) <= 1
              /\ ready'[t] = [s \in Seats |->
                                IF players'[t][s] # NoConn THEN "no" ELSE "none"]
      ]_vars

\* Table t stands ready for reuse: Waiting, no seat taken
ResetForReuse(t) ==
    /\ status[t] = "Waiting"
    /\ HumanSeats(players[t]) = {}
    /\ AISeats(ai_players[t]) = {}

\* C24: game_finished is set only after the cash-outs of the game have been
\* applied, each final stack credited once (the bank grows by the chips of
\* the standings), and a table is never reset for reuse before the
\* cash-outs of its game are applied.
C24_CashoutBeforeReset ==
    [][/\ \A g \in GameIds :
             (games[g].phase # "finished" /\ games'[g].phase = "finished") =>
                 games[g].phase = "paid"
       /\ \A g \in GameIds :
             (games[g].phase = "ended" /\ games'[g].phase = "paid") =>
                 SumOver([id \in BankIds |-> get_bankroll(bank', id)
                                              - get_bankroll(bank, id)], BankIds)
                   = (IF Len(games[g].player_bank_ids) < 2 THEN 0
                      ELSE Len(games[g].player_bank_ids) * BuyIn)
       /\ \A t \in TableIds :
             (active_game'[t] # NoGame /\ ResetForReuse(t)')
                 => games'[active_game'[t]].phase \in {"paid", "finished"}
      ]_vars

\* The receive buffer starts with a complete frame whose body is a ClientMessage
ValidFrameWaiting(buf) ==
    /\ byte_len(buf) >= 4
    /\ decode_length(buf) <= MAX_MESSAGE_SIZE
    /\ byte_len(buf) >= 4 + decode_length(buf)
    /\ from_str(take(drain(buf, 4), decode_length(buf))) # NoMessage

C27_ValidFrameDispatched == ~ValidFrameWaiting(pending)

\* The lobby with its threads scheduled fairly: the engine thread of a game
\* runs to its GameEnded (every port answers) and the fan-out thread handles
\* the GameEnded it receives. Nothing obliges a client to send a message.
SpecLive ==
    /\ Init /\ [][Next]_vars
    /\ \A g \in GameIds : /\ WF_vars(EngineEnds(g))
                          /\ WF_vars(FanoutCashout(g))
                          /\ WF_vars(FanoutFinished(g))

\* The last human has left the game of the InProgress table t
LastHumanLeft(t) ==
    /\ status[t] = "InProgress"
    /\ active_game[t] # NoGame
    /\ games[active_game[t]].quit_signal

\* C25: once the last human has left or disconnected from an InProgress
\* table, the engine eventually emits GameEnded and the fan-out thread
\* eventually sets game_finished, and the table eventually returns to
\* Waiting: it never stays InProgress forever.
C25_TableReturnsToWaiting ==
    /\ \A t \in TableIds :
          LastHumanLeft(t) ~>
              (active_game[t] = NoGame \/ is_finished(active_game[t]))
    /\ \A t \in TableIds : LastHumanLeft(t) ~> (status[t] = "Waiting")

\* C28: the local lobby backend's AddAI seats the newcomer on the lowest seat
\* index in 0..max_players that nobody holds, and a removal leaves the seat
\* index of every remaining occupant as it was.
C28_LowestEmptySeat ==
    [][/\ \A a \in LocalRoster :
             LocalAddAI(a) =>
                 lobby_players'[Len(lobby_players')].seat
                     = lowest_empty_seat(lobby_players, LocalMax)
       /\ \A seat \in 0..MaxLocalSeat :
             LocalRemoveAI(seat) =>
                 \A i \in 1..Len(lobby_players') :
                     \E j \in 1..Len(lobby_players) :
                         lobby_players'[i] = lobby_players[j]
      ]_vars

\* C29: a seat that is in sitting_out when a hand starts is never sent an
\* ActionRequest in that hand and has after the hand the stack it had before
\* it; and no hand is started when fewer than two seats both have chips and
\* are not sitting out.
C29_SittingOutFrozen ==
    [][/\ (runnerPc = "act" /\ runnerPc' = "await") =>
              game_state.to_act_idx \notin out_at_start
       /\ (runnerPc = "handend" /\ runnerPc' = "loop") =>
              \A p \in out_at_start : stacks'[p] = stacks[p]
       /\ (runnerPc = "start" /\ runnerPc' = "setup") =>
              Cardinality(ActiveSeats(stacks, sitting_out)) >= 2
      ]_vars

\* The place of an event kind in the order of a hand (0: a kind the order
\* does not speak of)
HandOrder(type) ==
    CASE type = "HandStarted" -> 1
      [] type = "HoleCardsDealt" -> 2
      [] type = "BlindPosted" -> 3
      [] type \in {"StreetChanged", "ActionTaken"} -> 4
      [] type = "ShowdownReveal" -> 5
      [] type = "PotAwarded" -> 6
      [] type = "HandEnded" -> 7
      [] OTHER -> 0

\* The place the hand has reached before the runner's next step
ReachedOrder ==
    CASE runnerPc = "setup" -> 1
      [] runnerPc \in {"act", "await", "handend"} -> 4
      [] OTHER -> 0

\* The events the step puts on the channel to the fan-out thread
Emitted ==
    IF Len(event_q') > Len(event_q)
    THEN SubSeq(event_q', Len(event_q) + 1, Len(event_q'))
    ELSE << >>

\* C30: within a hand the events are emitted in the order HandStarted, all
\* HoleCardsDealt, all BlindPosted, then per street StreetChanged and its
\* ActionTaken events, then ShowdownReveal, then all PotAwarded, then
\* HandEnded: no event of an earlier kind follows one of a later kind.
C30_HandEventOrder ==
    [][/\ \A i \in DOMAIN Emitted :
             HandOrder(Emitted[i].type) > 0 =>
                 HandOrder(Emitted[i].type) >= ReachedOrder
       /\ \A i, j \in DOMAIN Emitted :
             (i < j /\ HandOrder(Emitted[i].type) > 0
                    /\ HandOrder(Emitted[j].type) > 0) =>
                 HandOrder(Emitted[i].type) <= HandOrder(Emitted[j].type)
      ]_vars

\* How far GameRunner::run has come: the hand, the place in the loop and,
\* within the simulation, the street, the chips put in and the seats that
\* have acted
RunRank ==
    LET seat_step == 2 * (NumPlayers + 1)
        street_step == seat_step * (NumPlayers * starting_stack + 1)
        hand_end == 10 + street_step * (Len(Rounds) + 1)
    IN
    hand_num * (hand_end + 4) +
    (CASE runnerPc = "idle" -> 0
       [] runnerPc = "start" -> 1
       [] runnerPc = "setup" -> 2
       [] runnerPc \in {"act", "await"} ->
            10 + street_step * RoundIdx(game_state.round)
               + seat_step * SumOver(game_state.committed, Players)
               + 2 * (NumPlayers - Cardinality(game_state.needs_action))
               + (IF runnerPc = "await" THEN 1 ELSE 0)
       [] runnerPc = "handend" -> hand_end
       [] runnerPc = "loop" -> hand_end + 1
       [] runnerPc = "gameend" -> hand_end + 2
       [] runnerPc = "done" -> hand_end + 3)

\* The place of the step that ends a run of max_hands hands
LastRank ==
    LET seat_step == 2 * (NumPlayers + 1)
        street_step == seat_step * (NumPlayers * starting_stack + 1)
        hand_end == 10 + street_step * (Len(Rounds) + 1)
    IN (max_hands + 1) * (hand_end + 4) + hand_end + 3

\* The run makes progress at every step of the engine, never starts a hand
\* past max_hands, and emits GameEnded once, as its last event
RunEnds ==
    /\ RunRank' >= RunRank
    /\ EngineSide' # EngineSide => RunRank' > RunRank
    /\ RunRank' <= LastRank
    /\ (runnerPc = "start" /\ runnerPc' = "setup") =>
          /\ hand_num <= max_hands
          /\ event_q'[Len(event_q')].type = "HandStarted"
          /\ event_q'[Len(event_q')].amount = hand_num
    /\ runnerPc = "done" => (runnerPc' = "done" /\ Len(event_q') <= Len(event_q))
    /\ (runnerPc # "done" /\ runnerPc' = "done") =>
          /\ Len(event_q') = Len(event_q) + 1
          /\ event_q'[Len(event_q')].type = "GameEnded"
    /\ \A i \in DOMAIN Emitted : Emitted[i].type = "GameEnded" => runnerPc' = "done"

\* C31 as stated: with max_hands = m and every request answered the engine
\* terminates, emits at most m HandStarted and then one GameEnded, its last
\* event, whose reason is Winner if the quit signal was never raised.
C31_RunEndsWithWinner ==
    [][/\ RunEnds
       /\ (runnerPc # "done" /\ runnerPc' = "done" /\ ~quit_signal') =>
              end_reason' = "Winner"
      ]_vars

\* C31, amended: the same, the reason being Winner if the quit signal was
\* never raised and the game was run with at least two players.
C31_RunOfTwoEndsWithWinner ==
    [][/\ RunEnds
       /\ (runnerPc \notin {"idle", "done"} /\ runnerPc' = "done" /\ ~quit_signal') =>
              end_reason' = "Winner"
      ]_vars

\* C31 witness: the hand limit ended a game nobody had quit, both seats
\* still holding chips
C31_Witness ==
    /\ runnerPc = "done"
    /\ ~quit_signal
    /\ hand_num > max_hands
    /\ \A p \in Players : stacks[p] > 0
    /\ end_reason = "Winner"

\* C32: chip conservation is checked at the end of every hand and a
\* violation is fatal: HandEnded is emitted, and the loop gone round again,
\* only when the stacks after the hand add up to the stacks before it (the
\* game has no rake).
C32_ConservationChecked ==
    [][(\/ \E i \in DOMAIN Emitted : Emitted[i].type = "HandEnded"
        \/ (runnerPc = "handend" /\ runnerPc' = "loop"))
       => SumOver(stacks', Players) = SumOver(stacks, Players)
      ]_vars

\* C33: while a table is InProgress, a Ready from a connection seated at it
\* debits no bankroll, starts no engine or fan-out thread and leaves the
\* table's ActiveGame unchanged.
C33_ReadyWhileInProgress ==
    [][\A c \in Conns, t \in TableIds :
          (/\ current_table[c] = t
           /\ status[t] = "InProgress"
           /\ ConnSeats(players[t], c) # {}
           /\ Ready(c))
          => /\ bank' = bank
             /\ games' = games
             /\ active_game' = active_game
      ]_vars

\* C34: also when a Ready finds a seated connection between the two steps
\* of its disconnect cleanup, no buy-in is lost: the buy-ins debited at the
\* start of a game are those of the seats of the engine that is launched,
\* and when the game ends its seats are credited their final stacks, which
\* add up to the buy-ins of the game.
C34_NoBuyInLost ==
    [][\A g \in GameIds :
          /\ (games[g].phase = "free" /\ games'[g].phase = "running") =>
                SumOver([id \in BankIds |-> get_bankroll(bank, id) - get_bankroll(bank', id)],
                        BankIds)
                  = Len(games'[g].player_bank_ids) * BuyIn
          /\ (games[g].phase = "ended" /\ games'[g].phase = "paid") =>
                SumOver([id \in BankIds |-> get_bankroll(bank', id) - get_bankroll(bank, id)],
                        BankIds)
                  = Len(games[g].player_bank_ids) * BuyIn
      ]_vars

\* C35: between handlers, a connection's current_table is t if and only if
\* the connection's id occupies a seat in the players map of table t; so
\* after cleanup_finished_games has reset a table, no connection has it as
\* its current_table.
C35_CurrentTableMatchesSeat ==
    \A c \in Conns, t \in TableIds :
        connPc[c] = "open" =>
            (current_table[c] = t <=> ConnSeats(players[t], c) # {})

\* The cards of seat p that event e shows
CardsShown(e, p) ==
    IF e.type = "HoleCardsDealt" THEN (IF e.seat = p THEN e.cards ELSE NoCards)
    ELSE e.showed[p]

\* C36: in a hand that ends without a showdown, no message written to the
\* socket of viewer v holds the true hole cards of a seat other than v.
C36_NoCardsWithoutShowdown ==
    ~reached_showdown =>
        \A v \in ShowSeats : \A e \in seen[v] : \A p \in ShowSeats \ {v} :
            CardsShown(e, p) # original_hole_cards[p]

\* C37: for every Cash TableConfig, also one without min_buy_in, the amount
\* debited from a player's bankroll at game start equals the starting stack
\* the engine gives that player.
C37_DebitEqualsStack ==
    (buyPc = "started" /\ table_config.format = "Cash") => debited = runner_stack

\* C38: for every lobby seat layout, gaps left by removals included, the
\* seat announced to a human in TableJoined, and used in the PlayerLeft
\* messages about them, is the seat under which the engine identifies that
\* player.
C38_LobbySeatIsGameSeat ==
    /\ \A c \in RoomConns :
          conn_to_seat[c] # NoSeat => joined_seat[c] = conn_to_seat[c]
    /\ last_left.lobby = last_left.game

\* C39: whatever the peer sends, small complete frames with invalid bodies
\* included, the pending buffer holds at most 4 + MAX_MESSAGE_SIZE + 4096
\* bytes after a decode pass.
C39_PendingBounded ==
    byte_len(pending) <= 4 + MAX_MESSAGE_SIZE + READ_BUF

\* C40: every connection receives its LobbyState messages in the order in
\* which their table lists were built, and once no ListTables handler is
\* under way, the last LobbyState of a connection in the lobby is the
\* current table list.
C40_LobbyStateInOrder ==
    /\ [][\A c \in ListConns : lobby_state'[c].taken >= lobby_state[c].taken]_vars
    /\ []((\A c \in ListConns : listPc[c] = "idle") =>
            \A c \in ListConns :
                (lobby_table[c] = NoTable /\ lobby_state[c] # NoTableList) =>
                    lobby_state[c].tables
                        = build_table_list(lobby_rooms, snapshots).tables)

====
